---------------------------- MODULE Spec2Model ----------------------------
(***************************************************************************)
(* Model of the conversation-orchestration layer of the My-Doctor backend: *)
(*   - InMemorySlidingWindowLimiter   (src/backend/utils/rate_limit.py)    *)
(*   - the in-memory session store    (src/backend/services/groq_service.py)*)
(*                                                                         *)
(*   - chat_with_groq and its retrying upstream client (groq_service.py)   *)
(*   - generate_medical_response      (src/backend/services/chat_service.py)*)
(*   - POST /chat                     (src/backend/routers/chat.py)        *)
(*   - POST /chat of the first application (src/main.py)                   *)
(*                                                                         *)
(* The specifications share the variables below:                          *)
(*   SpecLimiter      check() calls issued one after another               *)
(*   SpecLimiterConc  check() calls of concurrent threads: each reads the  *)
(*                    clock, then takes the lock                           *)
(*   Spec             the session store, one atomic action per coroutine   *)
(*                    (each runs under _HISTORY_LOCK without awaiting)     *)
(*   SpecChat         one chat_with_groq call, a step per upstream request *)
(*                    and per sleep of the retry loop                      *)
(*   SpecGenerate     one generate_medical_response call                   *)
(*   SpecRouter       POST /chat requests, one after another               *)
(*   SpecRouterConc   POST /chat requests whose awaits overlap             *)
(*   SpecLegacy       POST /chat of the first application (src/main.py)    *)
(*   SpecNormalize    the normalisation of one upstream reply              *)
(***************************************************************************)
EXTENDS Integers, Sequences, FiniteSets, TLC

(***************************************************************************)
(* Bounds of the model.                                                    *)
(***************************************************************************)
\* time.time() is a float: the limiter's clock is counted in ticks of
\* 1/TicksPerSecond second, so that fractions of a second exist.
TicksPerSecond == 2
\* max_requests is a constructor argument (settings.rate_limit_per_minute).
max_requests == 3
\* number of check() calls in one behaviour
MaxChecks == 5
\* number of clock advances in one behaviour of the limiter
MaxClockSteps == 3

\* window_seconds=60 at the limiter's construction
window_seconds == 60

\* store operations and advances of the store's clock in one behaviour
MaxEvents == 4
\* chat turns of one session with the upstream call in flight
MaxPending == 2
\* user/assistant turns of the long conversation a behaviour may start from
PrefillTurns == 116

SESSION_TTL_SECONDS == 60 * 60 * 24
MAX_MESSAGES_PER_SESSION == 120

LimiterKeys == {"u1", "u2"}
Threads == {"t1", "t2"}

\* the window in ticks
WindowTicks == window_seconds * TicksPerSecond
\* the amounts by which the clock advances between two events:
\* one tick, ten seconds, the whole window
ClockSteps == {1, 10 * TicksPerSecond, WindowTicks}

VARIABLES
    \* ---- limiter ----
    events,      \* self._events: key -> queue of timestamps (ticks)
    clock,       \* time.time(), in ticks
    nchecks,     \* check() calls started so far
    nsteps,      \* clock advances so far
    lastCheck,   \* the last completed check(): key, now, allowed, retry;
                 \* due: a denial of the key since its last admission had
                 \* promised admission at or before now
    admitted,    \* history: key -> every timestamp ever appended, in order
    retryAt,     \* history: key -> the ticks t + retryAfterSeconds promised
                 \*          by the denials since the last admission of the key
    pc,          \* thread -> "idle" | "locked" (clock read, waiting for lock)
    tnow,        \* thread -> the clock value it read
    tkey,        \* thread -> the key it checks
    \* ---- session store ----
    SESSION_HISTORIES,   \* session id -> list of turns
    SESSION_TOUCHED_AT,  \* session id -> time of the last append/pin/archive
    SESSION_CREATED_AT,  \* session id -> time of creation
    SESSION_FLAGS,       \* session id -> [is_pinned, is_archived, pinned_at]
    SHARED_SESSION_MAP,  \* share id -> session id
    histOrder,           \* iteration (insertion) order of _SESSION_HISTORIES
    storeClock,          \* time.time(), in seconds
    minted,              \* share tokens minted so far
    pending,             \* session id -> chat turns whose user message is
                         \* appended and whose upstream call is in flight
    ncalls,              \* store operations so far
    nticks,              \* advances of the store's clock so far
    lastCall,            \* the last store operation and what it returned
    log,                 \* history: session id -> every turn appended to the
                         \*          record since it was created, in order
    HISTORY_LOCK,        \* _HISTORY_LOCK is held by a coroutine that awaits
    \* ---- chat_with_groq and the upstream client ----
    turn,        \* the running chat_with_groq call: its inputs, its position,
                 \* the running _request_groq_with_retry call and its attempt
    calls,       \* history: per call of _request_groq_with_retry in this
                 \*          turn, the payload sent and the statuses received
    lastWait,    \* history: the last asyncio.sleep of the retry loop
    outcome,     \* what the last finished chat_with_groq returned or raised
    nturns,      \* chat_with_groq calls started so far
    \* ---- generate_medical_response ----
    gen,         \* the last generate_medical_response call: inputs, result
    \* ---- POST /chat ----
    db,          \* the chat_sessions table (the owner of each session) and
                 \* the chat_messages table (rows in order of insertion)
    req,         \* the request POST /chat is handling, or handled last
    resp,        \* the last response of POST /chat
    nreqs,       \* requests so far
    waiting,     \* the requests suspended in `await generate_medical_response`
                 \* while the event loop runs another request
    \* ---- POST /chat of the first application (src/main.py) ----
    legacy,      \* the request it handles or handled last, and its response
    \* ---- the normalisation of an upstream reply ----
    norm         \* the last normalize call: the raw text, the result

limVars == <<events, clock, nchecks, nsteps, lastCheck, admitted, retryAt,
             pc, tnow, tkey>>

storeVars == <<SESSION_HISTORIES, SESSION_TOUCHED_AT, SESSION_CREATED_AT,
               SESSION_FLAGS, SHARED_SESSION_MAP, histOrder, storeClock, minted,
               pending, ncalls, nticks, lastCall, log, HISTORY_LOCK>>

chatVars == <<turn, calls, lastWait, outcome, nturns>>

genVars == <<gen>>

routerVars == <<db, req, resp, nreqs, waiting>>

legacyVars == <<legacy>>

normVars == <<norm>>

\* what the limiter and the store leave alone
turnVars == <<chatVars, genVars, routerVars, legacyVars, normVars>>

vars == <<limVars, storeVars, turnVars>>

(***************************************************************************)
(* InMemorySlidingWindowLimiter                                            *)
(***************************************************************************)

\* (mutant of IntTrunc) rounding up instead of truncating
IntRoundUp(n, d) == -((-n) \div d)
\* int(x) of a rational x = n/d, d > 0: truncation toward zero
IntTrunc(n, d) == IF n >= 0 THEN n \div d ELSE -((-n) \div d)

Max(a, b) == IF a >= b THEN a ELSE b

\* (mutant of Expired) a timestamp exactly one window old is dropped too
ExpiredAtEdge(now, t) == now - t >= WindowTicks
\* now - q[0] > self.window_seconds
Expired(now, t) == now - t > WindowTicks

\* while q and now - q[0] > self.window_seconds: q.popleft()
RECURSIVE Prune(_, _)
Prune(q, now) ==
    IF q # <<>> /\ Expired(now, Head(q)) THEN Prune(Tail(q), now) ELSE q

\* (mutant of RetryAfter) the "+ 1" forgotten
RetryAfterNoPlusOne(q, now) ==
    IntTrunc(WindowTicks - (now - Head(q)), TicksPerSecond)
\* retry_after = int(self.window_seconds - (now - q[0])) + 1
RetryAfter(q, now) ==
    IntTrunc(WindowTicks - (now - Head(q)), TicksPerSecond) + 1

\* (mutant of CheckLocked) a denied check is recorded in the queue too
CheckLockedCountsDenied(q0, now) ==
    LET q == Prune(q0, now) IN
    IF Len(q) >= max_requests
    THEN [queue |-> Append(q, now), allowed |-> FALSE,
          retry |-> Max(RetryAfter(q, now), 1)]
    ELSE [queue |-> Append(q, now), allowed |-> TRUE, retry |-> 0]
\* the body of check() under the lock, on the key's queue q0:
\* the new queue and the returned pair
CheckLocked(q0, now) ==
    LET q == Prune(q0, now) IN
    IF Len(q) >= max_requests
    THEN [queue |-> q, allowed |-> FALSE, retry |-> Max(RetryAfter(q, now), 1)]
    ELSE [queue |-> Append(q, now), allowed |-> TRUE, retry |-> 0]

\* the effect of one check() of key k that read the clock value now
ApplyCheck(k, now) ==
    LET r == CheckLocked(events[k], now) IN
    /\ events' = [events EXCEPT ![k] = r.queue]
    /\ lastCheck' = [key |-> k, now |-> now, allowed |-> r.allowed,
                     retry |-> r.retry,
                     due |-> \E d \in retryAt[k] : now >= d]
    /\ admitted' = IF r.allowed
                   THEN [admitted EXCEPT ![k] = Append(@, now)]
                   ELSE admitted
    /\ retryAt' = IF r.allowed
                  THEN [retryAt EXCEPT ![k] = {}]
                  ELSE [retryAt EXCEPT ![k] =
                           @ \cup {now + r.retry * TicksPerSecond}]

\* the limiter after __init__
LimiterFresh ==
    /\ events = [k \in LimiterKeys |-> <<>>]
    /\ clock = 0
    /\ nchecks = 0
    /\ nsteps = 0
    /\ lastCheck = [key |-> "u1", now |-> 0, allowed |-> TRUE, retry |-> 0,
                    due |-> FALSE]
    /\ admitted = [k \in LimiterKeys |-> <<>>]
    /\ retryAt = [k \in LimiterKeys |-> {}]
    /\ pc = [t \in Threads |-> "idle"]
    /\ tnow = [t \in Threads |-> 0]
    /\ tkey = [t \in Threads |-> "u1"]

\* time passes
ClockAdvance ==
    /\ nsteps < MaxClockSteps
    /\ \E d \in ClockSteps : clock' = clock + d
    /\ nsteps' = nsteps + 1
    /\ UNCHANGED <<events, nchecks, lastCheck, admitted, retryAt, pc, tnow, tkey>>
    /\ UNCHANGED <<storeVars, turnVars>>

\* check(key), alone: now = time.time() and the locked body in one step
Check ==
    /\ nchecks < MaxChecks
    /\ \E k \in LimiterKeys : ApplyCheck(k, clock)
    /\ nchecks' = nchecks + 1
    /\ UNCHANGED <<clock, nsteps, pc, tnow, tkey>>
    /\ UNCHANGED <<storeVars, turnVars>>

NextLimiter == ClockAdvance \/ Check


\* check(key) of thread t, first statement: now = time.time()
ReadClock ==
    /\ nchecks < MaxChecks
    /\ \E t \in Threads, k \in LimiterKeys :
          /\ pc[t] = "idle"
          /\ pc' = [pc EXCEPT ![t] = "locked"]
          /\ tnow' = [tnow EXCEPT ![t] = clock]
          /\ tkey' = [tkey EXCEPT ![t] = k]
    /\ nchecks' = nchecks + 1
    /\ UNCHANGED <<events, clock, nsteps, lastCheck, admitted, retryAt>>
    /\ UNCHANGED <<storeVars, turnVars>>

\* check(key) of thread t, the block under self._lock
LockedCheck ==
    /\ \E t \in Threads :
          /\ pc[t] = "locked"
          /\ ApplyCheck(tkey[t], tnow[t])
          /\ pc' = [pc EXCEPT ![t] = "idle"]
    /\ UNCHANGED <<clock, nchecks, nsteps, tnow, tkey>>
    /\ UNCHANGED <<storeVars, turnVars>>

NextLimiterConc == ClockAdvance \/ ReadClock \/ LockedCheck



(***************************************************************************)
(* The session store of groq_service.py                                    *)
(***************************************************************************)

\* the session ids clients send; "" is the missing or blank id
SessionIds == {"s1", "s2"}
NoSessionId == ""

\* a turn is [role, content]; the content of a system turn is the number of
\* its prompt in _SYSTEM_MESSAGES, the content of a user or assistant turn
\* is the number of the turn in the stream of turns appended to its record
\* (so that distinct turns have distinct texts)
SYSTEM_MESSAGES ==
    << [role |-> "system", content |-> 1],
       [role |-> "system", content |-> 2],
       [role |-> "system", content |-> 3] >>

seed_history == SYSTEM_MESSAGES

\* a value of the clock is never 0: 0 stands for None
None == 0

Restrict(f, S) == [x \in S |-> f[x]]
Put(f, k, v) == [x \in (DOMAIN f) \cup {k} |-> IF x = k THEN v ELSE f[x]]
\* (mutant of Pop) the entry is left in the map
PopKeeps(f, k) == f
Pop(f, k) == Restrict(f, (DOMAIN f) \ {k})
SetDefault(f, k, v) == IF k \in DOMAIN f THEN f ELSE Put(f, k, v)
SeqWithout(q, S) == SelectSeq(q, LAMBDA x : x \notin S)
SeqPut(q, k) == IF \E i \in 1..Len(q) : q[i] = k THEN q ELSE Append(q, k)

\* (mutant of IsExpired) a record exactly ttl old is expired too
IsExpiredAtEdge(t, touched) == t - touched >= SESSION_TTL_SECONDS
\* now - touched > _SESSION_TTL_SECONDS
IsExpired(t, touched) == t - touched > SESSION_TTL_SECONDS

\* (mutant of expired_ids) no session is ever found expired
expired_ids_never(t) == {}
\* expired_ids = [session_id ... if now - touched > _SESSION_TTL_SECONDS]
expired_ids(t) ==
    {k \in DOMAIN SESSION_TOUCHED_AT : IsExpired(t, SESSION_TOUCHED_AT[k])}

\* (mutant of KeepShares) the share ids of removed sessions are kept
KeepAllShares(shares, gone) == shares
\* stale_shares = [share_id ... if value == session_id]; pop each of them
KeepShares(shares, gone) ==
    Restrict(shares, {sh \in DOMAIN shares : shares[sh] \notin gone})

\* _prune_expired_sessions(t): the five maps (and the iteration order of
\* the histories) after the sweep
prune_expired_sessions(t) ==
    LET gone == expired_ids(t) IN
    [ histories |-> Restrict(SESSION_HISTORIES, (DOMAIN SESSION_HISTORIES) \ gone),
      touched   |-> Restrict(SESSION_TOUCHED_AT, (DOMAIN SESSION_TOUCHED_AT) \ gone),
      created   |-> Restrict(SESSION_CREATED_AT, (DOMAIN SESSION_CREATED_AT) \ gone),
      flags     |-> Restrict(SESSION_FLAGS, (DOMAIN SESSION_FLAGS) \ gone),
      shares    |-> KeepShares(SHARED_SESSION_MAP, gone),
      order     |-> SeqWithout(histOrder, gone),
      log       |-> [k \in SessionIds |-> IF k \in gone THEN <<>> ELSE log[k]] ]

default_flags == [is_pinned |-> FALSE, is_archived |-> FALSE, pinned_at |-> None]

\* _get_session_flags(session_id) on the flags map: the map afterwards
\* (a flags dict is never empty, so "if flags" tests its presence)
\* (mutant of get_session_flags) the default flags are returned but not stored
get_session_flags_unstored(flags, k) == flags
get_session_flags(flags, k) == SetDefault(flags, k, default_flags)

\* (mutant of trim_history) the tail is cut one turn too long
trim_history_long_tail(history) ==
    IF Len(history) <= MAX_MESSAGES_PER_SESSION
    THEN history
    ELSE seed_history \o SubSeq(history,
                                Len(history) - (MAX_MESSAGES_PER_SESSION
                                                  - Len(SYSTEM_MESSAGES)),
                                Len(history))
\* (mutant of trim_history) the tail is kept without the seed in front
trim_history_no_seed(history) ==
    IF Len(history) <= MAX_MESSAGES_PER_SESSION
    THEN history
    ELSE SubSeq(history,
                Len(history) - (MAX_MESSAGES_PER_SESSION - Len(SYSTEM_MESSAGES)) + 1,
                Len(history))
\* (mutant of trim_history) the head is kept and the newest turns are cut
trim_history_drops_newest(history) ==
    IF Len(history) <= MAX_MESSAGES_PER_SESSION
    THEN history
    ELSE SubSeq(history, 1, MAX_MESSAGES_PER_SESSION)
\* _trim_history(history)
trim_history(history) ==
    IF Len(history) <= MAX_MESSAGES_PER_SESSION
    THEN history
    ELSE LET keep_tail == Max(MAX_MESSAGES_PER_SESSION - Len(SYSTEM_MESSAGES), 0)
             tail == IF keep_tail # 0
                     THEN SubSeq(history,
                                 Max(Len(history) - keep_tail + 1, 1),
                                 Len(history))
                     ELSE <<>>
         IN  seed_history \o tail

\* _history_to_ui_messages(session_id, history): the non-system turns,
\* numbered from 1 (every modelled text is non-empty)
history_to_ui_messages(k, history) ==
    LET shown == SelectSeq(history, LAMBDA m : m.role # "system") IN
    [i \in 1..Len(shown) |->
        [id |-> <<k, i>>, role |-> shown[i].role, text |-> shown[i].content]]

\* _derive_session_title(history): the text of the first user turn,
\* None for "New chat"
derive_session_title(history) ==
    LET users == SelectSeq(history, LAMBDA m : m.role = "user") IN
    IF users = <<>> THEN None ELSE users[1].content

\* (mutant of SortsBefore) the least recently touched record comes first
SortsBeforeOldestFirst(a, b) ==
    LET pa == IF a.is_pinned THEN 0 ELSE 1
        pb == IF b.is_pinned THEN 0 ELSE 1
    IN  pa < pb \/ (pa = pb /\ a.last_message_at < b.last_message_at)
\* the sort key of list_session_summaries, as a pair compared in order
SortsBefore(a, b) ==
    LET pa == IF a.is_pinned THEN 0 ELSE 1
        pb == IF b.is_pinned THEN 0 ELSE 1
    IN  pa < pb \/ (pa = pb /\ -a.last_message_at < -b.last_message_at)

\* list.sort(key=...): a stable sort (insertion sort keeps the order of ties)
RECURSIVE InsertSorted(_, _)
InsertSorted(sorted, x) ==
    IF sorted = <<>> THEN <<x>>
    ELSE IF ~SortsBefore(Head(sorted), x)
         THEN <<x>> \o sorted
         ELSE <<Head(sorted)>> \o InsertSorted(Tail(sorted), x)

RECURSIVE SortSummaries(_)
SortSummaries(items) ==
    IF items = <<>> THEN <<>>
    ELSE \* insert from the last to the first, each in front of its ties
         InsertSorted(SortSummaries(Tail(items)), Head(items))

\* what an operation returned: ok (found / existed / known), share (the
\* share id given or returned), summaries, messages; and, for the claims,
\* the time of the call, the ids its sweep removed, and whether
\* create_share_link found a share id already mapped to the session
NoResult == [op |-> "none", key |-> NoSessionId, ok |-> FALSE, share |-> None,
             at |-> None, summaries |-> <<>>, messages |-> <<>>,
             swept |-> {}, reused |-> FALSE, history |-> <<>>]

\* (mutant of returned_history) the stored list itself is handed out
returned_history_stored(history) ==
    [messages |-> history, shared |-> TRUE]
\* [dict(item) for item in history], what _append_user_message returns: a
\* new list of new dicts with the keys and values of the stored turns;
\* shared tells whether the caller holds the list object of the store
returned_history(history) ==
    [messages |-> [i \in 1..Len(history) |->
                      [role |-> history[i].role, content |-> history[i].content]],
     shared |-> FALSE]

\* the store after import: every map empty
StoreFresh ==
    /\ SESSION_HISTORIES = <<>>
    /\ SESSION_TOUCHED_AT = <<>>
    /\ SESSION_CREATED_AT = <<>>
    /\ SESSION_FLAGS = <<>>
    /\ SHARED_SESSION_MAP = <<>>
    /\ histOrder = <<>>
    /\ storeClock = 1
    /\ minted = 0
    /\ pending = [k \in SessionIds |-> 0]
    /\ ncalls = 0
    /\ nticks = 0
    /\ lastCall = NoResult
    /\ log = [k \in SessionIds |-> <<>>]
    /\ HISTORY_LOCK = FALSE

\* the turns of PrefillTurns/2 chat turns: user, assistant, user, ...
PrefillLog ==
    [i \in 1..PrefillTurns |->
        [role |-> IF i % 2 = 1 THEN "user" ELSE "assistant", content |-> i]]

\* the store after a long conversation on "s1", all of it at time 1
StoreWithLongSession ==
    /\ SESSION_HISTORIES = [k \in {"s1"} |-> seed_history \o PrefillLog]
    /\ SESSION_TOUCHED_AT = [k \in {"s1"} |-> 1]
    /\ SESSION_CREATED_AT = [k \in {"s1"} |-> 1]
    /\ SESSION_FLAGS = [k \in {"s1"} |-> default_flags]
    /\ SHARED_SESSION_MAP = <<>>
    /\ histOrder = <<"s1">>
    /\ storeClock = 1
    /\ minted = 0
    /\ pending = [k \in SessionIds |-> 0]
    /\ ncalls = 0
    /\ nticks = 0
    /\ lastCall = NoResult
    /\ log = [k \in SessionIds |-> IF k = "s1" THEN PrefillLog ELSE <<>>]
    /\ HISTORY_LOCK = FALSE

\* the maps as they are: what an operation leaves when it returns before
\* taking the lock
Untouched ==
    [ histories |-> SESSION_HISTORIES,
      touched   |-> SESSION_TOUCHED_AT,
      created   |-> SESSION_CREATED_AT,
      flags     |-> SESSION_FLAGS,
      shares    |-> SHARED_SESSION_MAP,
      order     |-> histOrder,
      log       |-> log ]

\* what every store operation does besides its own effect: st holds the
\* maps it leaves, res what it returned
Return(st, res) ==
    /\ SESSION_HISTORIES' = st.histories
    /\ SESSION_TOUCHED_AT' = st.touched
    /\ SESSION_CREATED_AT' = st.created
    /\ SESSION_FLAGS' = st.flags
    /\ SHARED_SESSION_MAP' = st.shares
    /\ histOrder' = st.order
    /\ log' = st.log
    /\ lastCall' = res
    /\ ncalls' = ncalls + 1
    /\ UNCHANGED <<storeClock, nticks>>
    /\ UNCHANGED limVars

\* `async with _HISTORY_LOCK:` and the block under it, which holds no await:
\* the coroutine goes on when the lock is free
Commit(st, res) == ~HISTORY_LOCK /\ Return(st, res)

\* (mutant of held_after_append_user_message) the lock stays with the turn
\* until its assistant message is appended
held_across_upstream_call == TRUE
\* _HISTORY_LOCK when _append_user_message has returned: its return
\* statement leaves the `async with` block, which releases the lock
held_after_append_user_message == FALSE

\* time passes: a second, or a whole ttl
Tick ==
    /\ ncalls + nticks < MaxEvents
    /\ \E d \in {1, SESSION_TTL_SECONDS} : storeClock' = storeClock + d
    /\ nticks' = nticks + 1
    /\ UNCHANGED <<SESSION_HISTORIES, SESSION_TOUCHED_AT, SESSION_CREATED_AT,
                   SESSION_FLAGS, SHARED_SESSION_MAP, histOrder, minted,
                   pending, ncalls, lastCall, log, HISTORY_LOCK>>
    /\ UNCHANGED <<limVars, turnVars>>

\* the record of k after appending turn m to it (or to a fresh seed)
AppendTurn(p, k, m) ==
    LET history == IF k \in DOMAIN p.histories
                   THEN p.histories[k] ELSE seed_history
    IN  trim_history(Append(history, m))

\* _append_user_message(session_id, message) on the record k: a blank
\* session_id is replaced by a new uuid4, an id the store has never seen
AppendUserMessage(sid, k) ==
    /\ IF sid = NoSessionId
       THEN /\ k \notin DOMAIN SESSION_HISTORIES
            /\ k \notin DOMAIN SESSION_TOUCHED_AT
            /\ pending[k] = 0
       ELSE k = sid
    /\ LET t == storeClock
           p == prune_expired_sessions(t)
           is_new_session == k \notin DOMAIN p.histories
           m == [role |-> "user", content |-> Len(p.log[k]) + 1]
           history == AppendTurn(p, k, m)
       IN  /\ Commit([p EXCEPT
                 !.histories = Put(@, k, history),
                 !.order = SeqPut(@, k),
                 !.touched = Put(@, k, t),
                 !.created = IF is_new_session THEN Put(@, k, t)
                             ELSE SetDefault(@, k, t),
                 !.flags = IF is_new_session
                           THEN get_session_flags(@, k) ELSE @,
                 !.log = [@ EXCEPT ![k] = Append(@, m)]],
               [NoResult EXCEPT !.op = "append_user", !.key = k,
                                !.ok = TRUE, !.at = t,
                                !.history = returned_history(history).messages])
           /\ pending' = [pending EXCEPT ![k] = @ + 1]
           /\ HISTORY_LOCK' = held_after_append_user_message
           /\ UNCHANGED minted

\* _append_user_message(session_id, message), called by chat_with_groq
append_user_message ==
    /\ ncalls + nticks < MaxEvents
    /\ \E sid \in SessionIds \cup {NoSessionId} :
       \E k \in SessionIds :
          /\ pending[k] < MaxPending
          /\ AppendUserMessage(sid, k)
    /\ UNCHANGED turnVars

\* chat_with_groq raises (the upstream call failed): no assistant turn
upstream_fails ==
    /\ \E k \in SessionIds :
          /\ pending[k] > 0
          /\ pending' = [pending EXCEPT ![k] = @ - 1]
    /\ UNCHANGED <<SESSION_HISTORIES, SESSION_TOUCHED_AT, SESSION_CREATED_AT,
                   SESSION_FLAGS, SHARED_SESSION_MAP, histOrder, storeClock,
                   minted, ncalls, nticks, lastCall, log, HISTORY_LOCK>>
    /\ UNCHANGED <<limVars, turnVars>>

\* _append_assistant_message(session_id, message) on the record k
AppendAssistantMessage(k) ==
    LET t == storeClock
        p == prune_expired_sessions(t)
        known == k \in DOMAIN p.histories
        m == [role |-> "assistant", content |-> Len(p.log[k]) + 1]
        history == AppendTurn(p, k, m)
    IN  /\ Commit([p EXCEPT
              !.histories = Put(@, k, history),
              !.order = SeqPut(@, k),
              !.touched = Put(@, k, t),
              !.created = IF known THEN @ ELSE SetDefault(@, k, t),
              !.flags = IF known THEN @ ELSE get_session_flags(@, k),
              !.log = [@ EXCEPT ![k] = Append(@, m)]],
            [NoResult EXCEPT !.op = "append_assistant", !.key = k,
                             !.ok = known, !.at = t])
        /\ pending' = [pending EXCEPT ![k] = @ - 1]
        /\ HISTORY_LOCK' = FALSE
        /\ UNCHANGED minted

\* _append_assistant_message(session_id, message), called by chat_with_groq
\* with the id _append_user_message returned, once the upstream answered
append_assistant_message ==
    /\ \E k \in SessionIds :
          /\ pending[k] > 0
          /\ AppendAssistantMessage(k)
    /\ UNCHANGED turnVars

\* the summary list_session_summaries builds for session k
Summary(p, flags, k, t) ==
    LET history == p.histories[k]
        created_ts == IF k \in DOMAIN p.created THEN p.created[k]
                      ELSE IF k \in DOMAIN p.touched THEN p.touched[k] ELSE t
        touched_ts == IF k \in DOMAIN p.touched THEN p.touched[k] ELSE created_ts
    IN  [id |-> k,
         title |-> derive_session_title(history),
         created_at |-> created_ts,
         last_message_at |-> touched_ts,
         message_count |-> Len(history_to_ui_messages(k, history)),
         is_pinned |-> flags[k].is_pinned,
         is_archived |-> flags[k].is_archived,
         pinned_at |-> flags[k].pinned_at]

RECURSIVE FlagsOfAll(_, _)
FlagsOfAll(flags, ids) ==
    IF ids = <<>> THEN flags
    ELSE FlagsOfAll(get_session_flags(flags, Head(ids)), Tail(ids))

\* list_session_summaries()
list_session_summaries ==
    /\ ncalls + nticks < MaxEvents
    /\ LET t == storeClock
           p == prune_expired_sessions(t)
           flags == FlagsOfAll(p.flags, p.order)
           sessions == [i \in 1..Len(p.order) |-> Summary(p, flags, p.order[i], t)]
       IN  Commit([p EXCEPT !.flags = flags],
                  [NoResult EXCEPT !.op = "list", !.ok = TRUE, !.at = t,
                                   !.swept = expired_ids(t),
                                   !.summaries = SortSummaries(sessions)])
    /\ UNCHANGED <<minted, pending, HISTORY_LOCK>>
    /\ UNCHANGED turnVars

\* get_session_history(session_id) with this session_id
get_session_history_of(sid) ==
    /\ IF sid = NoSessionId
       THEN Return(Untouched,
                   [NoResult EXCEPT !.op = "get", !.at = storeClock])
       ELSE LET t == storeClock
                p == prune_expired_sessions(t)
                known == sid \in DOMAIN p.histories
            IN  Commit(p,
                  [NoResult EXCEPT !.op = "get", !.key = sid, !.at = t,
                     !.ok = known,
                     !.messages = IF known
                                  THEN history_to_ui_messages(sid, p.histories[sid])
                                  ELSE <<>>])
    /\ UNCHANGED <<minted, pending, HISTORY_LOCK>>
    /\ UNCHANGED turnVars

\* get_session_history(session_id)
get_session_history ==
    /\ ncalls + nticks < MaxEvents
    /\ \E sid \in SessionIds \cup {NoSessionId} : get_session_history_of(sid)

\* pin_session(session_id, is_pinned)
pin_session ==
    /\ ncalls + nticks < MaxEvents
    /\ \E sid \in SessionIds \cup {NoSessionId}, is_pinned \in BOOLEAN :
          LET t == storeClock
              p == prune_expired_sessions(t)
              res == [NoResult EXCEPT !.op = "pin", !.key = sid, !.at = t]
          IN  IF sid = NoSessionId
              THEN Return(Untouched, res)
              ELSE IF sid \notin DOMAIN p.histories
              THEN Commit(p, res)
              ELSE Commit([p EXCEPT
                      !.flags = [get_session_flags(@, sid) EXCEPT ![sid] =
                                   [@ EXCEPT !.is_pinned = is_pinned,
                                             !.pinned_at = IF is_pinned THEN t
                                                           ELSE None]],
                      !.touched = Put(@, sid, t)],
                    [res EXCEPT !.ok = TRUE])
    /\ UNCHANGED <<minted, pending, HISTORY_LOCK>>
    /\ UNCHANGED turnVars

\* archive_session(session_id, is_archived)
archive_session ==
    /\ ncalls + nticks < MaxEvents
    /\ \E sid \in SessionIds \cup {NoSessionId}, is_archived \in BOOLEAN :
          LET t == storeClock
              p == prune_expired_sessions(t)
              res == [NoResult EXCEPT !.op = "archive", !.key = sid, !.at = t]
          IN  IF sid = NoSessionId
              THEN Return(Untouched, res)
              ELSE IF sid \notin DOMAIN p.histories
              THEN Commit(p, res)
              ELSE Commit([p EXCEPT
                      !.flags = [get_session_flags(@, sid) EXCEPT ![sid] =
                                   [@ EXCEPT !.is_archived = is_archived]],
                      !.touched = Put(@, sid, t)],
                    [res EXCEPT !.ok = TRUE])
    /\ UNCHANGED <<minted, pending, HISTORY_LOCK>>
    /\ UNCHANGED turnVars

\* delete_session(session_id)
delete_session ==
    /\ ncalls + nticks < MaxEvents
    /\ \E sid \in SessionIds \cup {NoSessionId} :
          LET t == storeClock
              p == prune_expired_sessions(t)
              res == [NoResult EXCEPT !.op = "delete", !.key = sid, !.at = t]
          IN  IF sid = NoSessionId
              THEN Return(Untouched, res)
              ELSE Commit([p EXCEPT
                      !.histories = Pop(@, sid),
                      !.order = SeqWithout(@, {sid}),
                      !.touched = Pop(@, sid),
                      !.created = Pop(@, sid),
                      !.flags = Pop(@, sid),
                      !.shares = KeepShares(@, {sid}),
                      !.log = [@ EXCEPT ![sid] = <<>>]],
                    [res EXCEPT !.ok = sid \in DOMAIN p.histories])
    /\ UNCHANGED <<minted, pending, HISTORY_LOCK>>
    /\ UNCHANGED turnVars

\* the share ids mapped to session k; the loop of create_share_link returns
\* the first in the order of insertion, which is the order of minting
SharesOf(shares, k) == {sh \in DOMAIN shares : shares[sh] = k}
Least(S) == CHOOSE x \in S : \A y \in S : x <= y

\* (mutant of MintOrReuse) a new token is minted at every call
MintAlways(shares, k) == minted + 1
\* the share id create_share_link returns for a known session k:
\* an id already mapped to k, else secrets.token_urlsafe(12), a token no
\* earlier call returned
MintOrReuse(shares, k) ==
    IF SharesOf(shares, k) # {} THEN Least(SharesOf(shares, k)) ELSE minted + 1

\* create_share_link(session_id)
create_share_link ==
    /\ ncalls + nticks < MaxEvents
    /\ \E sid \in SessionIds \cup {NoSessionId} :
          LET t == storeClock
              p == prune_expired_sessions(t)
              res == [NoResult EXCEPT !.op = "create_share", !.key = sid, !.at = t]
          IN  IF sid = NoSessionId
              THEN Return(Untouched, res) /\ UNCHANGED minted
              ELSE IF sid \notin DOMAIN p.histories
              THEN Commit(p, res) /\ UNCHANGED minted
              ELSE LET share_id == MintOrReuse(p.shares, sid) IN
                   /\ Commit([p EXCEPT !.shares = Put(@, share_id, sid)],
                             [res EXCEPT !.ok = TRUE, !.share = share_id,
                                         !.reused = share_id \in DOMAIN p.shares])
                   /\ minted' = Max(minted, share_id)
    /\ UNCHANGED <<pending, HISTORY_LOCK>>
    /\ UNCHANGED turnVars

\* get_shared_conversation(share_id), with a share id some call returned
\* or the blank id (None)
get_shared_conversation ==
    /\ ncalls + nticks < MaxEvents
    /\ \E share_id \in 0..minted :
          LET t == storeClock
              p == prune_expired_sessions(t)
              res == [NoResult EXCEPT !.op = "get_shared", !.share = share_id,
                                      !.at = t]
          IN  IF share_id = None
              THEN Return(Untouched, res)
              ELSE IF share_id \notin DOMAIN p.shares
              THEN Commit(p, res)
              ELSE LET session_id == p.shares[share_id] IN
                   IF session_id \notin DOMAIN p.histories
                   THEN Commit(p, res)
                   ELSE Commit(p,
                          [res EXCEPT !.ok = TRUE, !.key = session_id,
                             !.messages = history_to_ui_messages(
                                            session_id, p.histories[session_id])])
    /\ UNCHANGED <<minted, pending, HISTORY_LOCK>>
    /\ UNCHANGED turnVars

StoreNext ==
    \/ Tick
    \/ append_user_message
    \/ upstream_fails
    \/ append_assistant_message
    \/ list_session_summaries
    \/ get_session_history
    \/ pin_session
    \/ archive_session
    \/ delete_session
    \/ create_share_link
    \/ get_shared_conversation

(***************************************************************************)
(* The upstream client: _parse_retry_after_seconds,                        *)
(* _request_groq_with_retry and chat_with_groq                             *)
(***************************************************************************)
\* chat_with_groq calls in one behaviour
MaxTurns == 1

MAX_GROQ_RETRIES == 2
\* delays are floats of seconds; the model counts them in tenths of a second
UnitsPerSecond == 10
\* _BASE_RETRY_DELAY_SECONDS = 1.2
BASE_RETRY_DELAY_SECONDS == 12
\* _MAX_RETRY_DELAY_SECONDS = 8.0
MAX_RETRY_DELAY_SECONDS == 80
MAX_IMAGE_ATTACHMENTS_PER_TURN == 3

GROQ_MODEL == "llama-3.3-70b-versatile"
GROQ_VISION_MODEL == "meta-llama/llama-4-scout-17b-16e-instruct"

\* a Python float: a number of tenths, or nan; "none" is None and "error"
\* the ValueError of float()
Num(v) == [tag |-> "num", v |-> v]
NaN == [tag |-> "nan", v |-> 0]
NoneSeconds == [tag |-> "none", v |-> 0]
FloatError == [tag |-> "error", v |-> 0]

\* a < b on floats: every comparison with nan is False
FloatLess(a, b) == a.tag = "num" /\ b.tag = "num" /\ a.v < b.v

\* min(a, b): b when b < a, else a (so min(nan, b) is nan)
PyMin(a, b) == IF FloatLess(b, a) THEN b ELSE a

\* the values of the Retry-After header the upstream may send
RetryAfterValues == {"", "soon", "-1", "0.5", "2", " 2 ", "2.5", "9", "nan"}

\* response.headers: no header at all, headers without Retry-After, or
\* headers with one of the values above
NoHeaders == <<>>
OtherHeaders == [h \in {"Content-Type"} |-> "application/json"]
Headers ==
    {NoHeaders, OtherHeaders}
        \cup {[h \in {"Retry-After"} |-> v] : v \in RetryAfterValues}

\* str.strip() on the header values
Strip(s) == IF s = " 2 " THEN "2" ELSE s

\* float(value) on the stripped header values
PyFloat(s) ==
    CASE s = "-1"  -> Num(-10)
      [] s = "0.5" -> Num(5)
      [] s = "2"   -> Num(20)
      [] s = "2.5" -> Num(25)
      [] s = "9"   -> Num(90)
      [] s = "nan" -> NaN
      [] OTHER     -> FloatError

\* _parse_retry_after_seconds(headers)
parse_retry_after_seconds(headers) ==
    IF DOMAIN headers = {} THEN NoneSeconds
    ELSE LET value == Strip(IF "Retry-After" \in DOMAIN headers
                            THEN headers["Retry-After"] ELSE "")
         IN  IF value = "" THEN NoneSeconds
             ELSE LET seconds == PyFloat(value)
                  IN  IF seconds.tag = "error" THEN NoneSeconds
                      ELSE IF FloatLess(seconds, Num(0)) THEN NoneSeconds
                      ELSE PyMin(seconds, Num(MAX_RETRY_DELAY_SECONDS))

RECURSIVE Pow2(_)
Pow2(n) == IF n = 0 THEN 1 ELSE 2 * Pow2(n - 1)

\* wait_seconds of _request_groq_with_retry after a 429 at this attempt
wait_seconds(headers, attempt) ==
    LET retry_after == parse_retry_after_seconds(headers)
    IN  IF retry_after.tag # "none" THEN retry_after
        ELSE PyMin(Num(BASE_RETRY_DELAY_SECONDS * Pow2(attempt)),
                   Num(MAX_RETRY_DELAY_SECONDS))

\* round(x) of a float x >= 0 given in tenths: to the nearest integer, a
\* half to the even one
PyRound(v) ==
    LET q == v \div UnitsPerSecond
        r == v % UnitsPerSecond
    IN  IF 2 * r < UnitsPerSecond THEN q
        ELSE IF 2 * r > UnitsPerSecond THEN q + 1
        ELSE IF q % 2 = 0 THEN q ELSE q + 1

\* the statuses the upstream answers with
StatusCodes == {200, 400, 404, 422, 429, 500}
\* the responses client.post may return: the headers matter for a 429 only
Responses ==
    {[status |-> 429, headers |-> h] : h \in Headers}
        \cup {[status |-> s, headers |-> OtherHeaders] : s \in StatusCodes \ {429}}

\* (mutant of IsSuccess) a 4xx answer is taken for a success too
IsSuccessOrRejected(status) == status \div 100 \in {2, 4}
\* response.raise_for_status() raises unless the status is 2xx
IsSuccess(status) == status \div 100 = 2

\* the attachments of a turn: each has extracted text ("file"), or else a
\* valid image data url ("image"), or neither ("bare")
AttachmentLists ==
    {<<>>, <<"file">>, <<"bare">>, <<"image">>, <<"file", "image">>,
     <<"image", "image", "image", "image">>}

Min(a, b) == IF a <= b THEN a ELSE b

\* image_urls of _build_attachment_context: how many image urls it returns
image_urls(attachments) ==
    Min(Len(SelectSeq(attachments, LAMBDA a : a = "image")),
        MAX_IMAGE_ATTACHMENTS_PER_TURN)

\* a message of history as it is sent: a plain string as content
TextMessage(m) == [role |-> m.role, content |-> m.content, blocks |-> <<>>]

\* _build_request_messages(history, ...): with images, the last message
\* becomes a list of content blocks
build_request_messages(history, has_text, attachments) ==
    LET messages == [i \in 1..Len(history) |-> TextMessage(history[i])]
        n == image_urls(attachments)
        content_blocks ==
            (IF has_text THEN <<"text">> ELSE <<>>)
                \o (IF attachments # <<>> THEN <<"text">> ELSE <<>>)
                \o [i \in 1..n |-> "image_url"]
    IN  IF messages = <<>> \/ n = 0 THEN messages
        ELSE [messages EXCEPT ![Len(messages)] =
                 [role |-> "user", content |-> None, blocks |-> content_blocks]]

\* _resolve_model_for_request(has_images)
resolve_model_for_request(has_images) ==
    IF has_images /\ GROQ_VISION_MODEL # "" THEN GROQ_VISION_MODEL ELSE GROQ_MODEL

NoPayload == [model |-> "", messages |-> <<>>]

NoCall == [sent |-> 0, waits |-> 0, statuses |-> <<>>, payload |-> NoPayload,
           ended |-> "no"]

NoWait == [call |-> "none", attempt |-> 0, headers |-> NoHeaders,
           wait |-> NoneSeconds, raised |-> FALSE]

\* kind: "ok" (a ChatResponse), "http" (an HTTPException with status and,
\* for 429, the Retry-After header), "error" (any other exception)
NoOutcome == [kind |-> "none", status |-> 0, retry_after |-> 0,
              headers |-> NoHeaders, data |-> 0, call |-> "none"]

\* stored: what _build_storage_user_message put into the user turn (the
\* message text, the attachment context); fallbacks: fallback requests begun
IdleTurn == [pc |-> "idle", key |-> NoSessionId, has_text |-> FALSE,
             attachments |-> <<>>, history |-> <<>>,
             stored |-> [base |-> FALSE, extra |-> FALSE],
             call |-> "none", attempt |-> 0, wait |-> NoneSeconds,
             headers |-> NoHeaders, fallbacks |-> 0, shared |-> FALSE]

ChatFresh ==
    /\ turn = IdleTurn
    /\ calls = [c \in {"primary", "fallback"} |-> NoCall]
    /\ lastWait = NoWait
    /\ outcome = NoOutcome
    /\ nturns = 0

\* the HTTPException 429 of chat_with_groq after a final 429 with these
\* headers: wait_seconds = max(1, int(round(retry_after))), 6 without a
\* usable header; int(round(nan)) raises ValueError
rate_limited(headers) ==
    LET retry_after == parse_retry_after_seconds(headers)
    IN  IF retry_after.tag = "none"
        THEN [NoOutcome EXCEPT !.kind = "http", !.status = 429,
                               !.retry_after = 6, !.headers = headers]
        ELSE IF retry_after.tag = "nan"
        THEN [NoOutcome EXCEPT !.kind = "error", !.headers = headers]
        ELSE [NoOutcome EXCEPT !.kind = "http", !.status = 429,
                               !.retry_after = Max(1, PyRound(retry_after.v)),
                               !.headers = headers]

\* (mutant of http_status_error) every upstream failure reads "unreachable"
http_status_error_as_unreachable(status_code, headers) ==
    IF status_code = 429 THEN rate_limited(headers)
    ELSE [NoOutcome EXCEPT !.kind = "http", !.status = 503]
\* except httpx.HTTPStatusError, of the primary and of the fallback request
\* alike: HTTPException 429 after a 429, HTTPException 502 after any other
http_status_error(status_code, headers) ==
    IF status_code = 429 THEN rate_limited(headers)
    ELSE [NoOutcome EXCEPT !.kind = "http", !.status = 502]

\* except httpx.RequestError, of the primary and of the fallback request
\* alike: HTTPException 503
request_error == [NoOutcome EXCEPT !.kind = "http", !.status = 503]

\* chat_with_groq raises exc: the turn is over, the store keeps what it has
TurnRaises(exc, ended) ==
    /\ outcome' = [exc EXCEPT !.call = turn.call]
    /\ turn' = [turn EXCEPT !.pc = "done"]
    /\ calls' = ended
    /\ pending' = [pending EXCEPT ![turn.key] = @ - 1]
    /\ UNCHANGED <<SESSION_HISTORIES, SESSION_TOUCHED_AT, SESSION_CREATED_AT,
                   SESSION_FLAGS, SHARED_SESSION_MAP, histOrder, storeClock,
                   minted, ncalls, nticks, lastCall, log, HISTORY_LOCK>>
    /\ UNCHANGED limVars

\* for attempt in range(_MAX_GROQ_RETRIES + 1): after this attempt the loop
\* has another one
loop_goes_on(attempt) == attempt + 1 < MAX_GROQ_RETRIES + 1

\* (mutant of retries) the last attempt does not raise on a 429
retries_on_last_attempt(status_code, attempt) == status_code = 429
\* (mutant of retries) every error status is retried
retries_any_error(status_code, attempt) ==
    ~IsSuccess(status_code) /\ attempt < MAX_GROQ_RETRIES
\* the loop goes on to asyncio.sleep: a 429 and attempt < _MAX_GROQ_RETRIES
retries(status_code, attempt) ==
    status_code = 429 /\ attempt < MAX_GROQ_RETRIES

\* _build_storage_user_message(message, attachment_context): which of the
\* two texts the stored user turn holds
build_storage_user_message(has_text, attachments) ==
    [base |-> has_text, extra |-> attachments # <<>>]

\* (mutant of fallback_attempt) the fallback goes on where the primary
\* request stopped
fallback_attempt_carried(attempt) == attempt
\* the attempt the loop of the fallback's _request_groq_with_retry starts at
fallback_attempt(attempt) == 0

\* image_urls and status_code in {400, 404, 422}
enters_fallback(n, status_code) == n > 0 /\ status_code \in {400, 404, 422}

\* (mutant of fallback_payload) the request messages sent once more
fallback_payload_with_images(history, has_text, attachments) ==
    [model |-> GROQ_MODEL,
     messages |-> build_request_messages(history, has_text, attachments)]
\* fallback_payload: GROQ_MODEL and the history _append_user_message returned
fallback_payload(history, has_text, attachments) ==
    [model |-> GROQ_MODEL,
     messages |-> [i \in 1..Len(history) |-> TextMessage(history[i])]]

\* chat_with_groq up to its first request: the user turn is appended, the
\* request built
chat_with_groq ==
    /\ turn.pc \in {"idle", "done"}
    /\ nturns < MaxTurns
    /\ nturns' = nturns + 1
    /\ lastWait' = NoWait
    /\ \E key_set \in BOOLEAN, has_text \in BOOLEAN,
          attachments \in AttachmentLists,
          sid \in SessionIds \cup {NoSessionId}, k \in SessionIds :
          IF ~key_set
          THEN \* raise ValueError("GROQ_API_KEY environment variable is not set.")
               /\ sid = NoSessionId /\ k = "s1"
               /\ turn' = [IdleTurn EXCEPT !.pc = "done", !.has_text = has_text,
                                           !.attachments = attachments]
               /\ calls' = [c \in {"primary", "fallback"} |-> NoCall]
               /\ outcome' = [NoOutcome EXCEPT !.kind = "error"]
               /\ UNCHANGED <<limVars, storeVars>>
          ELSE /\ pending[k] = 0
               /\ AppendUserMessage(sid, k)
               /\ LET returned == returned_history(SESSION_HISTORIES'[k])
                      history == returned.messages
                      payload ==
                          [model |-> resolve_model_for_request(
                                         image_urls(attachments) > 0),
                           messages |-> build_request_messages(
                                            history, has_text, attachments)]
                  IN  /\ turn' = [IdleTurn EXCEPT
                             !.pc = "post", !.key = k, !.has_text = has_text,
                             !.attachments = attachments, !.history = history,
                             !.stored = build_storage_user_message(
                                            has_text, attachments),
                             !.call = "primary", !.shared = returned.shared]
                      /\ calls' = [c \in {"primary", "fallback"} |->
                                     IF c = "primary"
                                     THEN [NoCall EXCEPT !.payload = payload]
                                     ELSE NoCall]
               /\ outcome' = NoOutcome
    /\ UNCHANGED <<genVars, routerVars, legacyVars, normVars>>

\* client.post raised httpx.RequestError instead of returning a response
RequestError == [status |-> 0, headers |-> NoHeaders]

\* one turn of the loop of _request_groq_with_retry, from client.post to the
\* next await, with what chat_with_groq does when the call returns or raises
client_post ==
    /\ turn.pc = "post"
    /\ \E response \in Responses \cup {RequestError} :
          LET c == turn.call
              status_code == response.status
              sent == [calls EXCEPT ![c].sent = @ + 1]
              seen == [sent EXCEPT ![c].statuses = Append(@, status_code)]
          IN  IF response = RequestError
              THEN \* except httpx.RequestError: HTTPException 503
                   TurnRaises(request_error,
                              [sent EXCEPT ![c].ended = "request_error"])
              ELSE IF status_code # 429 /\ IsSuccess(status_code)
              THEN \* return response.json(); the assistant turn is appended
                   /\ AppendAssistantMessage(turn.key)
                   /\ calls' = [seen EXCEPT ![c].ended = "returned"]
                   /\ outcome' = [NoOutcome EXCEPT
                                     !.kind = "ok", !.status = status_code,
                                     !.data = seen[c].sent, !.call = c]
                   /\ turn' = [turn EXCEPT !.pc = "done"]
              ELSE IF retries(status_code, turn.attempt)
              THEN \* wait_seconds is computed, asyncio.sleep comes next
                   /\ turn' = [turn EXCEPT
                                 !.pc = "sleep",
                                 !.wait = wait_seconds(response.headers, turn.attempt),
                                 !.headers = response.headers]
                   /\ calls' = seen
                   /\ UNCHANGED <<outcome, limVars, storeVars>>
              ELSE IF c = "primary"
                      /\ enters_fallback(image_urls(turn.attachments), status_code)
              THEN \* raise_for_status(): HTTPStatusError, the fallback request
                   /\ turn' = [turn EXCEPT
                                 !.call = "fallback",
                                 !.attempt = fallback_attempt(turn.attempt),
                                 !.fallbacks = @ + 1]
                   /\ calls' = [seen EXCEPT
                          ![c].ended = "status_error",
                          !["fallback"].payload =
                              fallback_payload(turn.history, turn.has_text,
                                               turn.attachments)]
                   /\ UNCHANGED <<outcome, limVars, storeVars>>
              ELSE \* raise_for_status(): HTTPStatusError, HTTPException 429
                   \* or 502
                   TurnRaises(http_status_error(status_code, response.headers),
                              [seen EXCEPT ![c].ended = "status_error"])
    /\ UNCHANGED <<lastWait, nturns, genVars, routerVars, legacyVars, normVars>>

\* await asyncio.sleep(wait_seconds), then the next attempt; with a nan
\* delay asyncio.sleep returns at once (Python < 3.13) or raises ValueError
\* (Python >= 3.13), which chat_with_groq does not catch
asyncio_sleep ==
    /\ turn.pc = "sleep"
    /\ \E raises \in BOOLEAN :
          /\ raises => turn.wait.tag = "nan"
          /\ lastWait' = [call |-> turn.call, attempt |-> turn.attempt,
                          headers |-> turn.headers, wait |-> turn.wait,
                          raised |-> raises]
          /\ IF raises
             THEN TurnRaises([NoOutcome EXCEPT !.kind = "error",
                                              !.headers = turn.headers],
                             [calls EXCEPT ![turn.call].ended = "value_error"])
             ELSE IF loop_goes_on(turn.attempt)
             THEN /\ turn' = [turn EXCEPT !.pc = "post", !.attempt = @ + 1]
                  /\ calls' = [calls EXCEPT ![turn.call].waits = @ + 1]
                  /\ UNCHANGED <<outcome, limVars, storeVars>>
             ELSE \* the loop is over: raise RuntimeError("Unexpected retry
                  \* flow while calling Groq API."), which nothing catches
                  TurnRaises([NoOutcome EXCEPT !.kind = "error"],
                             [calls EXCEPT ![turn.call].waits = @ + 1,
                                           ![turn.call].ended = "runtime_error"])
    /\ UNCHANGED <<nturns, genVars, routerVars, legacyVars, normVars>>

ChatNext == chat_with_groq \/ client_post \/ asyncio_sleep

(***************************************************************************)
(* generate_medical_response (chat_service.py) and detect_emergency         *)
(* (emergency.py)                                                           *)
(*                                                                          *)
(* A message is a sequence of words.  A word written in Arabic script is    *)
(* spelled here in Latin letters behind the prefix "ur:".  A text produced  *)
(* by the service is a sequence of chunks: a line break, one of the fixed   *)
(* texts of chat_service.py, or any other run of characters that holds      *)
(* none of them.                                                            *)
(***************************************************************************)

ROMAN_URDU_MARKERS ==
    {"aap", "aapka", "aapke", "aapki", "aapko", "agar", "ap", "assalam",
     "aur", "bhook", "bhukh", "bohat", "bohot", "bukhaar", "bukhar",
     "chakkar", "dard", "dawa", "dawai", "dil", "din", "dwa",
     "ghabrahat", "hai", "hain", "hay", "ho", "hona", "hoon", "hun",
     "ilaaj", "ka", "kab", "kahan", "kaise", "kam", "kamzoree",
     "kamzori", "ke", "kese", "khaansi", "khansi", "ki", "kia", "ko",
     "kya", "kyu", "kyun", "lekin", "magar", "mai", "main", "masla",
     "may", "me", "mein", "mera", "meray", "mere", "merey", "meri",
     "mujay", "muje", "mujh", "mujhe", "nahi", "nahin", "neend", "nhi",
     "paet", "pait", "pani", "pet", "problem", "raat", "raha", "rahay",
     "rahi", "saans", "saas", "salaam", "salam", "sar", "se", "sir",
     "sirdard", "sukoon", "tabiyat", "thakaan", "thakan", "thora",
     "thoraa", "tum", "tumhara", "tumhare", "tumhari", "tumko", "ya",
     "zyada"}

ENGLISH_MARKERS ==
    {"and", "are", "can", "could", "for", "have", "hello", "help", "hi",
     "how", "is", "my", "name", "please", "should", "the", "what",
     "when", "where", "why", "with", "would", "you", "your"}

EMERGENCY_KEYWORDS_EN ==
    {<<"heart", "attack">>,
     <<"chest", "pain">>,
     <<"cannot", "breathe">>,
     <<"can't", "breathe">>,
     <<"stroke">>,
     <<"seizure">>,
     <<"unconscious">>,
     <<"overdose">>,
     <<"suicide">>,
     <<"suicidal">>,
     <<"self", "harm">>,
     <<"self-harm">>,
     <<"severe", "bleeding">>,
     <<"anaphylaxis">>,
     <<"poisoning">>,
     <<"kill", "myself">>,
     <<"want", "to", "die">>,
     <<"end", "my", "life">>,
     <<"not", "breathing">>}

EMERGENCY_KEYWORDS_UR ==
    {<<"ur:dil", "ur:ka", "ur:daura">>,
     <<"ur:saans", "ur:nahin", "ur:aa", "ur:raha">>,
     <<"ur:khudkushi">>,
     <<"ur:bohat", "ur:khoon">>,
     <<"ur:be", "ur:hosh">>,
     <<"ur:zehr">>}

\* the words of the model that are written in Arabic script
ArabicScriptWords ==
    {"ur:dil", "ur:ka", "ur:daura", "ur:saans", "ur:nahin", "ur:aa",
     "ur:raha", "ur:khudkushi", "ur:bohat", "ur:khoon", "ur:be", "ur:hosh",
     "ur:zehr", "ur:salam", "ur:bukhar"}

\* the inbound messages of the model
Messages ==
    {<<>>,
     <<"I", "have", "a", "headache">>,
     <<"I", "have", "chest", "pain">>,
     <<"STROKE">>,
     <<"my", "heart", "hurts">>,
     <<"mera", "sar", "dard">>,
     <<"mujhe", "chest", "pain", "hai", "aur", "saans", "nahi">>,
     <<"ur:salam", "ur:bukhar">>,
     <<"ur:bohat", "ur:khoon">>}

\* str.lower() of one word
LowerWord(w) ==
    CASE w = "I" -> "i"
      [] w = "STROKE" -> "stroke"
      [] OTHER -> w

\* str.lower() of a message
Lower(message) == [i \in 1..Len(message) |-> LowerWord(message[i])]

\* `key in text` on word sequences
Contains(text, key) ==
    \E i \in 1..(Len(text) - Len(key) + 1) :
        SubSeq(text, i, i + Len(key) - 1) = key

detect_emergency(message) ==
    \/ \E key \in EMERGENCY_KEYWORDS_EN : Contains(Lower(message), key)
    \/ \E key \in EMERGENCY_KEYWORDS_UR : Contains(message, key)

\* any("\u0600" <= ch <= "\u06ff" for ch in text)
HasArabicScript(message) ==
    \E i \in 1..Len(message) : message[i] \in ArabicScriptWords

\* sum(1 for token in tokens if token in markers)
Hits(tokens, markers) ==
    Cardinality({i \in 1..Len(tokens) : tokens[i] \in markers})

is_roman_urdu(message) ==
    LET text == Lower(message)
        roman_hits == Hits(text, ROMAN_URDU_MARKERS)
        english_hits == Hits(text, ENGLISH_MARKERS)
    IN  /\ text # <<>>
        /\ ~HasArabicScript(text)
        /\ \/ roman_hits >= 3
           \/ roman_hits >= 2 /\ roman_hits > english_hits

\* requested_language values of a request
RequestedLanguages == {"", "en", "ur", "fr"}

detect_language_variant(message, fallback) ==
    IF HasArabicScript(message)
    THEN [language |-> "ur", variant |-> "ur"]
    ELSE IF is_roman_urdu(message)
    THEN [language |-> "ur", variant |-> "roman_urdu"]
    ELSE IF fallback \in {"en", "ur"}
    THEN [language |-> fallback, variant |-> fallback]
    ELSE [language |-> "en", variant |-> "en"]

\* mode values of a request
RequestedModes == {"", "chat", "drug", "research", "who", "symptom"}

normalize_mode(mode) ==
    IF mode \in {"chat", "drug", "research", "who"} THEN mode ELSE "chat"

\* ---- texts ----
Chunk(kind, of, mode) == [kind |-> kind, of |-> of, mode |-> mode]
\* "\n"
NL == Chunk("nl", "", "")
\* a run of characters other than line breaks that holds no fixed text
Text(of) == Chunk("text", of, "")
\* one of the string literals of chat_service.py, named by its first words
Fixed(of) == Chunk("fixed", of, "")

\* the text of a message
MessageText(message) == [i \in 1..Len(message) |-> Text(message[i])]

RECURSIVE LStrip(_)
LStrip(text) ==
    IF text # <<>> /\ Head(text) = NL THEN LStrip(Tail(text)) ELSE text

RECURSIVE RStrip(_)
RStrip(text) ==
    IF text # <<>> /\ text[Len(text)] = NL
    THEN RStrip(SubSeq(text, 1, Len(text) - 1))
    ELSE text

\* str.strip()
StripText(text) == RStrip(LStrip(text))

\* the chunks of text from index i on that re.sub(r"\n{3,}", "\n\n") keeps:
\* a line break that follows two line breaks is dropped
RECURSIVE CollapseFrom(_, _)
CollapseFrom(text, i) ==
    IF i > Len(text) THEN <<>>
    ELSE IF i >= 3 /\ text[i] = NL /\ text[i - 1] = NL /\ text[i - 2] = NL
    THEN CollapseFrom(text, i + 1)
    ELSE <<text[i]>> \o CollapseFrom(text, i + 1)

preserve_rich_formatting(text) ==
    LET raw == StripText(text) IN
    IF raw = <<>> THEN raw ELSE CollapseFrom(raw, 1)

ensure_visual_formatting(text) == preserve_rich_formatting(text)

\* the banner of the language the reply is written in
emergency_alert(language, language_variant) ==
    IF language_variant = "roman_urdu" THEN Chunk("alert", "roman_urdu", "")
    ELSE IF language = "ur" THEN Chunk("alert", "ur", "")
    ELSE Chunk("alert", "en", "")

\* one fixed text per language variant and mode; none holds a banner
mode_fallback_final_response(mode, language, language_variant) ==
    LET of == IF language_variant = "roman_urdu" THEN "roman_urdu"
              ELSE IF language = "ur" THEN "ur" ELSE "en"
        m == IF mode \in {"drug", "research", "who"} THEN mode ELSE "chat"
    IN  <<Chunk("mode_fallback", of, m)>>

SYMPTOMS_DEFAULT == <<Fixed("Not specified")>>
CAUSES_DEFAULT == <<Fixed("Needs clinical evaluation")>>
ADVICE_DEFAULT == <<Fixed("Consult a licensed doctor for personalized care.")>>
WHEN_DEFAULT == <<Fixed("Seek medical care if symptoms worsen or persist.")>>

is_placeholder_structured(payload) ==
    /\ StripText(payload.final_response) = <<>>
    /\ payload.symptoms = SYMPTOMS_DEFAULT
    /\ payload.possible_causes = CAUSES_DEFAULT
    /\ payload.advice = ADVICE_DEFAULT
    /\ payload.when_to_see_doctor = WHEN_DEFAULT

\* the StructuredMedicalResponse built when ask_groq_structured raised
local_fallback(message, selected_mode, language, language_variant, links) ==
    [symptoms |-> MessageText(message),
     possible_causes |->
        IF language = "ur" THEN <<Fixed("ur: These symptoms can have")>>
        ELSE <<Fixed("These symptoms can have multiple causes")>>,
     advice |->
        IF language = "ur" THEN <<Fixed("ur: Rest, stay hydrated")>>
        ELSE <<Fixed("Rest, stay hydrated")>>,
     urgency_level |-> "moderate",
     when_to_see_doctor |->
        IF language = "ur" THEN <<Fixed("ur: See a doctor within 24-48 hours")>>
        ELSE <<Fixed("See a doctor within 24-48 hours")>>,
     final_response |->
        mode_fallback_final_response(selected_mode, language, language_variant),
     references |-> links]

\* a final_response for a result that came without one
fill_final_response(structured, selected_mode, language, language_variant) ==
    LET fallback == mode_fallback_final_response(selected_mode, language,
                                                 language_variant)
        advice_fallback == StripText(structured.advice)
    IN  IF is_placeholder_structured(structured)
        THEN [structured EXCEPT !.final_response = fallback]
        ELSE IF selected_mode = "chat"
                /\ StripText(structured.final_response) = <<>>
        THEN IF advice_fallback # <<>> /\ advice_fallback # ADVICE_DEFAULT
             THEN [structured EXCEPT !.final_response = advice_fallback]
             ELSE [structured EXCEPT !.final_response = fallback]
        ELSE structured

EMERGENCY_WHEN(language) ==
    IF language = "ur" THEN <<Fixed("ur: This may be an emergency")>>
    ELSE <<Fixed("This may be an emergency")>>

\* `alert in text`
HasAlert(text, alert) == \E i \in 1..Len(text) : text[i] = alert

\* (mutant of emergency_overlay) urgency_level is left as it came
emergency_overlay_keeps_urgency(structured, language, language_variant) ==
    LET alert == emergency_alert(language, language_variant)
        s == [structured EXCEPT
                 !.when_to_see_doctor = EMERGENCY_WHEN(language)]
    IN  IF StripText(s.final_response) # <<>>
        THEN IF ~HasAlert(s.final_response, alert)
             THEN [s EXCEPT !.final_response = <<alert, NL, NL>> \o @]
             ELSE s
        ELSE [s EXCEPT !.final_response = <<alert>>]
\* (mutant of emergency_overlay) the banner is prepended without looking
emergency_overlay_always_prepends(structured, language, language_variant) ==
    LET alert == emergency_alert(language, language_variant)
        s == [structured EXCEPT
                 !.urgency_level = "emergency",
                 !.when_to_see_doctor = EMERGENCY_WHEN(language)]
    IN  IF StripText(s.final_response) # <<>>
        THEN [s EXCEPT !.final_response = <<alert, NL, NL>> \o @]
        ELSE [s EXCEPT !.final_response = <<alert>>]
\* the body of `if emergency:`
emergency_overlay(structured, language, language_variant) ==
    LET alert == emergency_alert(language, language_variant)
        s == [structured EXCEPT
                 !.urgency_level = "emergency",
                 !.when_to_see_doctor = EMERGENCY_WHEN(language)]
    IN  IF StripText(s.final_response) # <<>>
        THEN IF ~HasAlert(s.final_response, alert)
             THEN [s EXCEPT !.final_response = <<alert, NL, NL>> \o @]
             ELSE s
        ELSE [s EXCEPT !.final_response = <<alert>>]

\* if reference_links and not structured.references
fill_references(structured, links) ==
    IF links # <<>> /\ structured.references = <<>>
    THEN [structured EXCEPT !.references = links]
    ELSE structured

format_structured_for_chat(payload, language) ==
    LET direct == StripText(payload.final_response) IN
    IF direct # <<>> THEN direct
    ELSE <<Chunk("fields", IF language = "ur" THEN "ur" ELSE "en",
                 payload.urgency_level)>>

\* ---- what ask_groq_structured may return ----
UrgencyLevels == {"low", "moderate", "high", "emergency"}

A_en == emergency_alert("en", "en")
A_ur == emergency_alert("ur", "ur")
A_roman == emergency_alert("ur", "roman_urdu")

\* final_response values of an upstream result
FinalResponses ==
    {<<>>,
     <<NL, NL>>,
     <<Text("reply")>>,
     <<NL, Text("reply"), NL>>,
     <<Text("reply"), NL, NL, NL, NL, Text("more")>>,
     <<A_en>>,
     <<A_en, NL, NL, Text("reply")>>,
     <<Text("reply"), NL, A_en>>,
     <<A_en, NL, Text("reply"), NL, A_en>>,
     <<A_ur, NL, NL, Text("reply")>>,
     <<A_ur, NL, A_ur>>,
     <<A_roman, NL, NL, Text("reply")>>,
     <<A_roman, A_roman, Text("reply")>>,
     <<A_en, NL, A_ur, NL, A_roman>>}

\* the other text fields of an upstream result: the defaults of a result
\* that came without them, or texts of its own
FieldValues ==
    {[symptoms |-> SYMPTOMS_DEFAULT, possible_causes |-> CAUSES_DEFAULT,
      advice |-> ADVICE_DEFAULT, when_to_see_doctor |-> WHEN_DEFAULT],
     [symptoms |-> <<Text("symptoms")>>, possible_causes |-> CAUSES_DEFAULT,
      advice |-> ADVICE_DEFAULT, when_to_see_doctor |-> WHEN_DEFAULT],
     [symptoms |-> <<Text("symptoms")>>, possible_causes |-> <<Text("causes")>>,
      advice |-> <<NL, Text("advice"), NL>>,
      when_to_see_doctor |-> <<Text("when")>>],
     [symptoms |-> <<Text("symptoms")>>, possible_causes |-> <<Text("causes")>>,
      advice |-> <<>>, when_to_see_doctor |-> <<Text("when")>>]}

\* reference_links of a PubMed search, references of an upstream result
ReferenceLists == {<<>>, <<"https://pubmed.ncbi.nlm.nih.gov/1/">>}

StructuredResults ==
    {[symptoms |-> f.symptoms, possible_causes |-> f.possible_causes,
      advice |-> f.advice, urgency_level |-> u,
      when_to_see_doctor |-> f.when_to_see_doctor,
      final_response |-> t, references |-> r] :
        f \in FieldValues, u \in UrgencyLevels, t \in FinalResponses,
        r \in {<<>>, <<"https://who.int/ref">>}}

NoStructured ==
    [symptoms |-> <<>>, possible_causes |-> <<>>, advice |-> <<>>,
     urgency_level |-> "", when_to_see_doctor |-> <<>>,
     final_response |-> <<>>, references |-> <<>>]

\* the outcomes of `await ask_groq_structured(...)`
UpstreamOutcomes ==
    {[raised |-> TRUE, result |-> NoStructured]}
    \cup {[raised |-> FALSE, result |-> s] : s \in StructuredResults}

(***************************************************************************)
(* The normalisation of the upstream's reply: normalize(rawText,           *)
(* fallbackReferences) of ask_groq_structured.  A raw text is a sequence   *)
(* of tokens: a code fence, a brace, a "key: value" member of a JSON       *)
(* object, or a run of other text.                                         *)
(***************************************************************************)

\* tokens of one raw text
MaxRawLen == 5

\* the line of three backquotes that opens or closes a fenced block
Fence == "fence"
LBrace == "{"
RBrace == "}"

\* the members a reply is made of, with their key and value
Members ==
    {"advice: rest", "symptoms: cough", "urgency_level: high",
     "urgency_level: severe"}

MemberKey(token) ==
    CASE token = "advice: rest" -> "advice"
      [] token = "symptoms: cough" -> "symptoms"
      [] OTHER -> "urgency_level"

MemberValue(token) ==
    CASE token = "advice: rest" -> "rest"
      [] token = "symptoms: cough" -> "cough"
      [] token = "urgency_level: high" -> "high"
      [] OTHER -> "severe"

RawTokens == {Fence, LBrace, RBrace, "free text"} \cup Members

RawTexts == UNION {[1..n -> RawTokens] : n \in 0..MaxRawLen}

\* the raw text as the text of a field
RawText(raw) == [i \in 1..Len(raw) |-> Text(raw[i])]

\* strip Markdown code-fence wrappers
strip_code_fences(raw) ==
    LET opened == IF raw # <<>> /\ Head(raw) = Fence THEN Tail(raw) ELSE raw
    IN  IF opened # <<>> /\ opened[Len(opened)] = Fence
        THEN SubSeq(opened, 1, Len(opened) - 1)
        ELSE opened

\* the value of key in the members of text, the last one when it occurs
\* more than once; "" when it does not occur
ValueOf(text, key) ==
    LET at == {i \in 1..Len(text) :
                  text[i] \in Members /\ MemberKey(text[i]) = key}
    IN  IF at = {} THEN ""
        ELSE MemberValue(text[CHOOSE i \in at : \A j \in at : j <= i])

\* the parse of text as a JSON object: braces around members
parse_object(text) ==
    LET ok == /\ Len(text) >= 2
              /\ text[1] = LBrace
              /\ text[Len(text)] = RBrace
              /\ \A i \in 2..(Len(text) - 1) : text[i] \in Members
    IN  [ok |-> ok,
         object |-> [key \in {"advice", "symptoms", "urgency_level"} |->
                        IF ok THEN ValueOf(text, key) ELSE ""]]

\* the substring between the first "{" and the last "}"
extract_braces(text) ==
    LET opens == {i \in 1..Len(text) : text[i] = LBrace}
        closes == {i \in 1..Len(text) : text[i] = RBrace}
    IN  IF opens = {} \/ closes = {} THEN <<>>
        ELSE LET first == CHOOSE i \in opens : \A j \in opens : i <= j
                 last == CHOOSE i \in closes : \A j \in closes : j <= i
             IN  IF first < last THEN SubSeq(text, first, last) ELSE <<>>

\* a field of the object, or its default when absent or empty
FieldOr(value, default) == IF value = "" THEN default ELSE <<Text(value)>>

\* (mutant of from_object) the urgency level of the reply is kept as it is
from_object_keeps_urgency(object, fallbackReferences) ==
    [symptoms |-> FieldOr(object["symptoms"], SYMPTOMS_DEFAULT),
     possible_causes |-> CAUSES_DEFAULT,
     advice |-> FieldOr(object["advice"], ADVICE_DEFAULT),
     urgency_level |-> object["urgency_level"],
     when_to_see_doctor |-> WHEN_DEFAULT,
     final_response |-> <<>>,
     references |-> fallbackReferences]
\* the result of a parsed object: defaults for the fields that are absent or
\* empty, "moderate" for an urgency level that is missing or not one of the
\* four, the caller's references when the upstream supplied none
from_object(object, fallbackReferences) ==
    [symptoms |-> FieldOr(object["symptoms"], SYMPTOMS_DEFAULT),
     possible_causes |-> CAUSES_DEFAULT,
     advice |-> FieldOr(object["advice"], ADVICE_DEFAULT),
     urgency_level |-> IF object["urgency_level"] \in UrgencyLevels
                       THEN object["urgency_level"] ELSE "moderate",
     when_to_see_doctor |-> WHEN_DEFAULT,
     final_response |-> <<>>,
     references |-> fallbackReferences]

\* (mutant of last_resort) the result of an empty object
last_resort_drops_text(rawText, fallbackReferences) ==
    from_object([key \in {"advice", "symptoms", "urgency_level"} |-> ""],
                fallbackReferences)
\* the last-resort result: the raw text in the advice field
last_resort(rawText, fallbackReferences) ==
    [from_object([key \in {"advice", "symptoms", "urgency_level"} |-> ""],
                 fallbackReferences)
        EXCEPT !.advice = RawText(rawText)]

\* normalize(rawText, fallbackReferences)
normalize(rawText, fallbackReferences) ==
    LET cleaned == strip_code_fences(rawText)
        direct == parse_object(cleaned)
        inner == parse_object(extract_braces(cleaned))
    IN  IF direct.ok THEN from_object(direct.object, fallbackReferences)
        ELSE IF inner.ok THEN from_object(inner.object, fallbackReferences)
        ELSE last_resort(rawText, fallbackReferences)

IdleNorm ==
    [pc |-> "idle", rawText |-> <<>>, fallbackReferences |-> <<>>,
     result |-> NoStructured]

NormFresh == norm = IdleNorm

\* one call of normalize
normalize_call ==
    /\ norm.pc = "idle"
    /\ \E rawText \in RawTexts, fallbackReferences \in ReferenceLists :
          norm' = [pc |-> "returned", rawText |-> rawText,
                   fallbackReferences |-> fallbackReferences,
                   result |-> normalize(rawText, fallbackReferences)]
    /\ UNCHANGED <<limVars, storeVars, chatVars, genVars, routerVars, legacyVars>>

NormNext == normalize_call

\* the raw texts of the upstream generate_medical_response is run on: a JSON
\* object, one with an urgency level of its own making, a fenced block, text
\* around an object, partial JSON, free text, the empty text
ReplyTexts ==
    {<<LBrace, "advice: rest", "urgency_level: high", RBrace>>,
     <<LBrace, "urgency_level: severe", RBrace>>,
     <<Fence, LBrace, "advice: rest", RBrace, Fence>>,
     <<"free text", LBrace, "symptoms: cough", RBrace>>,
     <<LBrace, "advice: rest">>,
     <<"free text">>,
     <<>>}

\* what `await ask_groq_structured(...)` may end with: the upstream call
\* failed and it raises; the call succeeded and it returns a result; the
\* call succeeded with this raw text and it returns the normalised text, or
\* raises on it
Replies(links) ==
    {[upstream |-> IF up.raised THEN "failed" ELSE "result",
      rawText |-> <<>>, up |-> up] : up \in UpstreamOutcomes}
    \cup {[upstream |-> "text", rawText |-> raw,
           up |-> [raised |-> FALSE, result |-> normalize(raw, links)]] :
             raw \in ReplyTexts}
    \cup {[upstream |-> "text", rawText |-> raw,
           up |-> [raised |-> TRUE, result |-> NoStructured]] :
             raw \in ReplyTexts}

\* (mutant of structured_or_fallback) no handler around ask_groq_structured
structured_or_nothing(up, fallback) == up.result
\* try: structured = await ask_groq_structured(...)
\* except Exception: structured = StructuredMedicalResponse(...)
structured_or_fallback(up, fallback) ==
    IF up.raised THEN fallback ELSE up.result

\* generate_medical_response from the return of ask_groq_structured on:
\* the result as built (before), after the emergency overlay (overlaid) and
\* as returned (structured), and response_text
after_upstream(message, mode, language, variant, emergency, links, up) ==
    LET received == structured_or_fallback(
                        up, local_fallback(message, mode, language,
                                           variant, links))
        before == fill_final_response(received, mode, language,
                                      variant)
        overlaid == IF emergency
                    THEN emergency_overlay(before, language, variant)
                    ELSE before
        filled == fill_references(overlaid, links)
        structured == [filled EXCEPT
                          !.final_response = ensure_visual_formatting(@)]
    IN  [before |-> before, overlaid |-> overlaid, structured |-> structured,
         response_text |-> format_structured_for_chat(structured, language)]

\* (mutant of references_or_empty) no handler around the PubMed search: its
\* exception leaves generate_medical_response
references_or_raise(raises, links) ==
    IF raises THEN [pc |-> "raised", reference_links |-> <<>>]
    ELSE [pc |-> "upstream", reference_links |-> links]
\* try: references = await fetch_pubmed_references(...);
\*      reference_links = [ref.url for ref in references]
\* except Exception: reference_links = []
references_or_empty(raises, links) ==
    [pc |-> "upstream", reference_links |-> IF raises THEN <<>> ELSE links]

IdleGen ==
    [pc |-> "idle", message |-> <<>>, requested_language |-> "", mode |-> "",
     selected_mode |-> "", language |-> "", language_variant |-> "",
     emergency |-> FALSE, pubmed_raised |-> FALSE,
     reference_links |-> <<>>, upstream |-> "none", rawText |-> <<>>,
     raised |-> FALSE,
     received |-> NoStructured, before |-> NoStructured,
     overlaid |-> NoStructured, structured |-> NoStructured,
     response_text |-> <<>>]

\* no generate_medical_response call yet
GenFresh == gen = IdleGen

\* generate_medical_response up to `await fetch_pubmed_references(...)`
generate_medical_response ==
    /\ gen.pc = "idle"
    /\ \E message \in Messages, requested_language \in RequestedLanguages,
          mode \in RequestedModes :
          LET lv == detect_language_variant(message, requested_language) IN
          gen' = [gen EXCEPT !.pc = "pubmed", !.message = message,
                             !.requested_language = requested_language,
                             !.mode = mode,
                             !.selected_mode = normalize_mode(mode),
                             !.language = lv.language,
                             !.language_variant = lv.variant,
                             !.emergency = detect_emergency(message)]
    /\ UNCHANGED <<limVars, storeVars, chatVars, routerVars, legacyVars, normVars>>

\* the PubMed search returns or raises; up to `await ask_groq_structured(...)`
fetch_pubmed_references ==
    /\ gen.pc = "pubmed"
    /\ \E raises \in BOOLEAN, links \in ReferenceLists :
          LET r == references_or_empty(raises, links) IN
          gen' = [gen EXCEPT !.pc = r.pc,
                             !.pubmed_raised = raises,
                             !.reference_links = r.reference_links]
    /\ UNCHANGED <<limVars, storeVars, chatVars, routerVars, legacyVars, normVars>>

\* ask_groq_structured returns or raises; generate_medical_response runs to
\* its return
ask_groq_structured ==
    /\ gen.pc = "upstream"
    /\ \E reply \in Replies(gen.reference_links) :
          LET up == reply.up
              r == after_upstream(gen.message, gen.selected_mode, gen.language,
                                  gen.language_variant, gen.emergency,
                                  gen.reference_links, up)
          IN  gen' = [gen EXCEPT !.pc = "returned",
                                 !.upstream = reply.upstream,
                                 !.rawText = reply.rawText,
                                 !.raised = up.raised,
                                 !.received = up.result,
                                 !.before = r.before,
                                 !.overlaid = r.overlaid,
                                 !.structured = r.structured,
                                 !.response_text = r.response_text]
    /\ UNCHANGED <<limVars, storeVars, chatVars, routerVars, legacyVars, normVars>>

GenNext ==
    generate_medical_response \/ fetch_pubmed_references \/ ask_groq_structured

(***************************************************************************)
(* POST /chat (routers/chat.py)                                            *)
(*                                                                          *)
(* One request at a time.  The handler runs in two steps: up to             *)
(* `await generate_medical_response(...)`, and from its return on.          *)
(***************************************************************************)

\* requests of one behaviour
MaxRequests == 4

\* current_user: None (a guest) or a user of the limiter
Guest == "guest"
RouterUsers == {Guest, "u1"}

\* payload.message or payload.voice_text
RouterMessages ==
    {<<>>, <<"I", "have", "chest", "pain">>}

\* what generate_medical_response meets upstream during a request
RouterUpstreamOutcomes ==
    {up \in UpstreamOutcomes :
        \/ up.raised
        \/ /\ up.result.final_response = <<Text("reply")>>
           /\ up.result.urgency_level = "low"
           /\ up.result.advice = <<>>
           /\ up.result.references = <<>>}

NoSession == 0

IdleRequest ==
    [pc |-> "idle", n |-> 0, user |-> Guest, message |-> <<>>,
     session |-> NoSession, checked |-> FALSE, allowed |-> FALSE,
     generated |-> FALSE, upstream_failed |-> FALSE]

NoResponse ==
    [n |-> 0, status |-> 0, retry_after |-> 0, fallback |-> FALSE,
     emergency |-> FALSE, urgency_level |-> "", message_id |-> 0]

\* POST /chat before any request: no session, no message
RouterFresh ==
    /\ db = [sessions |-> <<>>, messages |-> <<>>]
    /\ req = IdleRequest
    /\ resp = NoResponse
    /\ nreqs = 0
    /\ waiting = {}

\* if current_user:
limiter_consulted(user) == user # Guest

\* (mutant of admits) a denial of the limiter is not acted on
admits_everyone(user, r) == TRUE
\* the request goes on: no limiter for it, or the limiter allowed it
admits(user, r) == ~limiter_consulted(user) \/ r.allowed

\* _get_or_create_session: the session of that id when it is the user's,
\* else a new one
session_found(sessions, user, session_id) ==
    /\ session_id # NoSession
    /\ session_id \in 1..Len(sessions)
    /\ sessions[session_id] = user

\* HTTPException(status_code, headers={"Retry-After": ...})
ErrorResponse(n, status, retry_after) ==
    [NoResponse EXCEPT !.n = n, !.status = status, !.retry_after = retry_after]

\* POST /chat up to `await generate_medical_response(...)`
chat_request ==
    /\ req.pc = "idle"
    /\ nreqs < MaxRequests
    /\ nreqs' = nreqs + 1
    /\ \E user \in RouterUsers, message \in RouterMessages,
          session_id \in {NoSession, Len(db.sessions)} :
          LET n == nreqs + 1
              r == IF limiter_consulted(user)
                   THEN CheckLocked(events[user], clock)
                   ELSE [queue |-> <<>>, allowed |-> FALSE, retry |-> 0]
              found == session_found(db.sessions, user, session_id)
              session == IF found THEN session_id ELSE Len(db.sessions) + 1
              this == [IdleRequest EXCEPT !.n = n, !.user = user,
                                          !.message = message,
                                          !.checked = limiter_consulted(user),
                                          !.allowed = r.allowed]
          IN  /\ IF limiter_consulted(user)
                 THEN ApplyCheck(user, clock)
                 ELSE UNCHANGED <<events, lastCheck, admitted, retryAt>>
              /\ IF ~admits(user, r)
                 THEN /\ resp' = ErrorResponse(n, 429, r.retry)
                      /\ req' = this
                      /\ UNCHANGED db
                 ELSE IF message = <<>>
                 THEN /\ resp' = ErrorResponse(n, 400, 0)
                      /\ req' = this
                      /\ UNCHANGED db
                 ELSE IF user = Guest
                 THEN /\ req' = [this EXCEPT !.pc = "generating",
                                             !.generated = TRUE]
                      /\ UNCHANGED <<db, resp>>
                 ELSE /\ req' = [this EXCEPT !.pc = "generating",
                                             !.generated = TRUE,
                                             !.session = session]
                      /\ db' = [sessions |->
                                   IF found THEN db.sessions
                                   ELSE Append(db.sessions, user),
                                messages |->
                                   Append(db.messages,
                                          [request |-> n, session |-> session,
                                           user |-> user, role |-> "user",
                                           emergency |-> FALSE])]
                      /\ UNCHANGED resp
    /\ UNCHANGED <<clock, nchecks, nsteps, pc, tnow, tkey, waiting>>
    /\ UNCHANGED <<storeVars, chatVars, genVars, legacyVars, normVars>>

\* POST /chat from the return of generate_medical_response on
chat_response ==
    /\ req.pc = "generating"
    /\ \E generation_raises \in BOOLEAN, up \in RouterUpstreamOutcomes :
       /\ req' = [req EXCEPT !.pc = "idle", !.upstream_failed = up.raised]
       /\ LET lv == detect_language_variant(req.message, "")
              \* the PubMed search found nothing
              links == <<>>
              emergency == detect_emergency(req.message)
              g == after_upstream(req.message, normalize_mode("chat"),
                                  lv.language, lv.variant, emergency, links, up)
              answer == [NoResponse EXCEPT
                            !.n = req.n, !.status = 200,
                            !.fallback = up.raised,
                            !.emergency = emergency,
                            !.urgency_level = g.structured.urgency_level]
          IN  IF generation_raises
              THEN /\ resp' = ErrorResponse(req.n, 502, 0)
                   /\ UNCHANGED db
              ELSE IF req.user = Guest
              THEN /\ resp' = answer
                   /\ UNCHANGED db
              ELSE /\ db' = [db EXCEPT !.messages =
                               Append(@, [request |-> req.n,
                                          session |-> req.session,
                                          user |-> req.user,
                                          role |-> "assistant",
                                          emergency |-> emergency])]
                   /\ resp' = [answer EXCEPT
                                  !.message_id = Len(db.messages) + 1]
    /\ UNCHANGED <<nreqs, waiting>>
    /\ UNCHANGED <<limVars, storeVars, chatVars, genVars, legacyVars, normVars>>

\* ten seconds pass between two steps of the handler
time_passes == ClockAdvance /\ clock' = clock + 10 * TicksPerSecond

RouterNext == time_passes \/ chat_request \/ chat_response

\* `await generate_medical_response(...)` suspends the handler: the event
\* loop is free to run the handler of another request
request_suspends ==
    /\ req.pc = "generating"
    /\ waiting' = waiting \cup {req}
    /\ req' = IdleRequest
    /\ UNCHANGED <<db, resp, nreqs>>
    /\ UNCHANGED <<limVars, storeVars, chatVars, genVars, legacyVars, normVars>>

\* generate_medical_response of a suspended request is about to return: the
\* event loop resumes its handler
request_resumes ==
    /\ req.pc = "idle"
    /\ \E r \in waiting :
          /\ req' = r
          /\ waiting' = waiting \ {r}
    /\ UNCHANGED <<db, resp, nreqs>>
    /\ UNCHANGED <<limVars, storeVars, chatVars, genVars, legacyVars, normVars>>

RouterConcNext == RouterNext \/ request_suspends \/ request_resumes

(***************************************************************************)
(* POST /chat of the first application (src/main.py) and its               *)
(* chat_with_groq (src/services/groq_service.py)                           *)
(*                                                                          *)
(* The handler runs in two steps: up to `await client.post(...)`, and from  *)
(* its return on.                                                           *)
(***************************************************************************)

\* requests of one behaviour
MaxLegacyRequests == 2

\* len(request.message) > 2000
LEGACY_MAX_MESSAGE_CHARS == 2000
\* e.response.text[:200]
LEGACY_DETAIL_BODY_CHARS == 200

\* EMERGENCY_KEYWORDS of src/services/groq_service.py
LEGACY_EMERGENCY_KEYWORDS ==
    {<<"heart", "attack">>, <<"chest", "pain">>, <<"can't", "breathe">>,
     <<"cannot", "breathe">>, <<"stroke">>, <<"seizure">>, <<"unconscious">>,
     <<"overdose">>, <<"suicide">>, <<"suicidal">>, <<"self-harm">>,
     <<"self", "harm">>, <<"severe", "bleeding">>, <<"choking">>,
     <<"anaphylaxis">>, <<"allergic", "reaction">>, <<"poisoning">>,
     <<"dying">>, <<"kill", "myself">>, <<"want", "to", "die">>,
     <<"end", "my", "life">>, <<"stop", "breathing">>, <<"not", "breathing">>,
     <<"passing", "out">>, <<"fainted">>, <<"blood", "everywhere">>,
     <<"severe", "chest">>}

legacy_detect_emergency(message) ==
    \E key \in LEGACY_EMERGENCY_KEYWORDS : Contains(Lower(message), key)

\* request.message: its words (none when it is empty or blank) and its
\* length in characters
LegacyRequests ==
    {[words |-> <<>>, chars |-> 0],
     [words |-> <<>>, chars |-> 3],
     [words |-> <<"I", "have", "a", "headache">>, chars |-> 17],
     [words |-> <<"I", "have", "chest", "pain">>, chars |-> 17],
     [words |-> <<"I", "have", "a", "headache">>,
      chars |-> LEGACY_MAX_MESSAGE_CHARS],
     [words |-> <<"I", "have", "a", "headache">>,
      chars |-> LEGACY_MAX_MESSAGE_CHARS + 1]}

\* response.text of the upstream: which text, and its length in characters
Bodies ==
    {[text |-> "", chars |-> 0],
     [text |-> "invalid api key sk-1", chars |-> 20],
     [text |-> "model overloaded", chars |-> 16],
     [text |-> "trace", chars |-> LEGACY_DETAIL_BODY_CHARS],
     [text |-> "trace", chars |-> LEGACY_DETAIL_BODY_CHARS + 1]}

\* what `await client.post(...)` ends with: a response, or an
\* httpx.RequestError whose str() is reason
LegacyStatusCodes == {200, 400, 401, 429, 500, 503}

LegacyUpstream ==
    [kind : {"response"}, status : LegacyStatusCodes, body : Bodies,
     reason : {""}]
    \cup [kind : {"request_error"}, status : {0}, body : {[text |-> "", chars |-> 0]},
          reason : {"timed out", "connection refused"}]

\* text[:n]
Truncate(body, n) == [body EXCEPT !.chars = Min(@, n)]

NoBody == [text |-> "", chars |-> 0]

\* an HTTPException, or a ChatResponse (status 200): detail is the fixed
\* part of the text, and code, body and reason what is formatted into it
LegacyResponse(status, detail, code, body, reason) ==
    [status |-> status, detail |-> detail, code |-> code, body |-> body,
     reason |-> reason, emergency |-> FALSE]

NoLegacyResponse == LegacyResponse(0, "", 0, NoBody, "")

\* except httpx.HTTPStatusError as e: 502 with
\* f"AI service error: {e.response.status_code} - {e.response.text[:200]}"
legacy_status_error(e) ==
    LegacyResponse(502, "AI service error: {} - {}", e.status,
                   Truncate(e.body, LEGACY_DETAIL_BODY_CHARS), "")

\* except httpx.RequestError as e: 503 with f"AI service unreachable: {str(e)}"
legacy_request_error(e) ==
    LegacyResponse(503, "AI service unreachable: {}", 0, NoBody, e.reason)

IdleLegacy ==
    [pc |-> "idle", n |-> 0, message |-> [words |-> <<>>, chars |-> 0],
     key_set |-> FALSE, emergency |-> FALSE,
     upstream |-> [kind |-> "none", status |-> 0, body |-> NoBody,
                   reason |-> ""],
     resp |-> NoLegacyResponse]

LegacyFresh == legacy = IdleLegacy

\* POST /chat up to `await client.post(...)` in chat_with_groq
legacy_chat ==
    /\ legacy.pc \in {"idle", "done"}
    /\ legacy.n < MaxLegacyRequests
    /\ \E message \in LegacyRequests, key_set \in BOOLEAN :
          LET this == [IdleLegacy EXCEPT !.n = legacy.n + 1,
                                         !.message = message,
                                         !.key_set = key_set]
              done(r) == [this EXCEPT !.pc = "done", !.resp = r]
          IN  IF message.words = <<>>
              THEN legacy' = done(LegacyResponse(
                                 400, "Message cannot be empty.", 0, NoBody, ""))
              ELSE IF message.chars > LEGACY_MAX_MESSAGE_CHARS
              THEN legacy' = done(LegacyResponse(
                                 400, "Message too long. Maximum 2000 characters.",
                                 0, NoBody, ""))
              ELSE IF ~key_set
              THEN \* ValueError: 500 with str(e)
                   legacy' = done(LegacyResponse(
                                 500, "GROQ_API_KEY environment variable is not set.",
                                 0, NoBody, ""))
              ELSE legacy' = [this EXCEPT
                                 !.pc = "post",
                                 !.emergency = legacy_detect_emergency(message.words)]
    /\ UNCHANGED <<limVars, storeVars, chatVars, genVars, routerVars, normVars>>

\* client.post returns or raises; response.raise_for_status(); POST /chat
\* runs to its response
legacy_client_post ==
    /\ legacy.pc = "post"
    /\ \E e \in LegacyUpstream :
          legacy' = [legacy EXCEPT
             !.pc = "done",
             !.upstream = e,
             !.resp = IF e.kind = "request_error" THEN legacy_request_error(e)
                      ELSE IF ~IsSuccess(e.status) THEN legacy_status_error(e)
                      ELSE [LegacyResponse(200, "{}{}", 0, e.body, "")
                               EXCEPT !.emergency = legacy.emergency]]
    /\ UNCHANGED <<limVars, storeVars, chatVars, genVars, routerVars, normVars>>

LegacyNext == legacy_chat \/ legacy_client_post

TurnFresh ==
    ChatFresh /\ GenFresh /\ RouterFresh /\ LegacyFresh /\ NormFresh

(***************************************************************************)
(* Specifications                                                          *)
(***************************************************************************)
InitLimiter == LimiterFresh /\ StoreFresh /\ TurnFresh

SpecLimiter == InitLimiter /\ [][NextLimiter]_vars

SpecLimiterConc == InitLimiter /\ [][NextLimiterConc]_vars

\* the store starts empty, or (a state it reaches after PrefillTurns
\* appends) with one long conversation
Init == LimiterFresh /\ (StoreFresh \/ StoreWithLongSession) /\ TurnFresh

Next == StoreNext

Spec == Init /\ [][Next]_vars

\* chat_with_groq, one turn after another, on the store as imported
SpecChat == InitLimiter /\ [][ChatNext]_vars

\* the same, when every request to the upstream returns or times out (the
\* httpx client has a timeout of 30 s) and every asyncio.sleep ends (its
\* delay is at most _MAX_RETRY_DELAY_SECONDS)
SpecChatFair == SpecChat /\ WF_vars(client_post) /\ WF_vars(asyncio_sleep)

\* generate_medical_response, called once
SpecGenerate == InitLimiter /\ [][GenNext]_vars

\* POST /chat requests, one after another, while time passes
SpecRouter == InitLimiter /\ [][RouterNext]_vars

\* POST /chat requests in flight together on one event loop
SpecRouterConc == InitLimiter /\ [][RouterConcNext]_vars

\* POST /chat of the first application, one request after another
SpecLegacy == InitLimiter /\ [][LegacyNext]_vars

\* normalize, called once
SpecNormalize == InitLimiter /\ [][NormNext]_vars

(***************************************************************************)
(* Claims about the limiter                                                *)
(***************************************************************************)
\* largest integer <= n/d and smallest integer >= n/d, d > 0
Floor(n, d) == n \div d
Ceil(n, d) == -((-n) \div d)

\* the admitted calls of key k whose recorded time lies in [t, t + window]
InWindowFrom(k, t) ==
    {j \in 1..Len(admitted[k]) :
        admitted[k][j] >= t /\ admitted[k][j] <= t + WindowTicks}

\* C1: with check() calls issued one after another, no interval of length
\* windowSeconds holds more than maxRequests admitted calls of a key, and a
\* call is denied only when maxRequests admitted calls of its key lie within
\* the trailing windowSeconds of the call.
C1_WindowBound ==
    /\ \A k \in LimiterKeys : \A i \in 1..Len(admitted[k]) :
          Cardinality(InWindowFrom(k, admitted[k][i])) <= max_requests
    /\ (nchecks > 0 /\ ~lastCheck.allowed) =>
          Cardinality(InWindowFrom(lastCheck.key, lastCheck.now - WindowTicks))
             >= max_requests

\* a denial has happened while exactly maxRequests admissions lie in the
\* trailing window
C1_Witness ==
    /\ nchecks > 0
    /\ ~lastCheck.allowed
    /\ Cardinality(InWindowFrom(lastCheck.key, lastCheck.now - WindowTicks))
          = max_requests

\* what a check() step did to the queue of its key, with the rounding
\* Round(n, d) of the remaining window n/d seconds
CheckStepReturns(Round(_, _)) ==
    nchecks' = nchecks + 1 =>
       LET k == lastCheck'.key
           now == lastCheck'.now
           old == events[k]
           new == events'[k]
       IN  IF lastCheck'.allowed
           THEN /\ lastCheck'.retry = 0
                /\ \E i \in 1..(Len(old) + 1) :
                      new = Append(SubSeq(old, i, Len(old)), now)
           ELSE /\ new # <<>>
                /\ lastCheck'.retry =
                      Round(WindowTicks - (now - Head(new)), TicksPerSecond) + 1
                /\ lastCheck'.retry >= 1
                /\ \E i \in 1..(Len(old) + 1) : new = SubSeq(old, i, Len(old))

\* C2 (as stated): a denied check returns
\* ceil(windowSeconds - (now - oldestTimestamp)) + 1 >= 1, oldestTimestamp the
\* head of the pruned queue; an admitted check returns (true, 0) and appends
\* exactly the timestamp now.
C2_RetryIsCeilPlusOne == [][CheckStepReturns(Ceil)]_vars

\* C2 (amended): the same with the remaining window rounded down, as int()
\* does: floor(windowSeconds - (now - oldestTimestamp)) + 1.
C2_RetryIsFloorPlusOne == [][CheckStepReturns(Floor)]_vars

\* a denial whose remaining window is not a whole number of seconds
C2_Witness ==
    /\ nchecks > 0
    /\ ~lastCheck.allowed
    /\ (WindowTicks - (lastCheck.now - Head(events[lastCheck.key])))
           % TicksPerSecond # 0

\* C3: after a denial of key k at time t with retryAfterSeconds r, and no
\* admission of k in between, a check of k at any time >= t + r is admitted.
C3_RetryHonoured == lastCheck.due => lastCheck.allowed

\* a check made at or after the promised time of an earlier denial
C3_Witness == nchecks > 0 /\ lastCheck.due /\ lastCheck.allowed

\* C4: under every interleaving of concurrent check() calls, no interval of
\* length windowSeconds holds more than maxRequests recorded timestamps of
\* admitted calls of a key.
C4_ConcurrentWindowBound ==
    \A k \in LimiterKeys : \A i \in 1..Len(admitted[k]) :
        Cardinality({j \in 1..Len(admitted[k]) :
                        /\ admitted[k][j] >= admitted[k][i]
                        /\ admitted[k][j] - admitted[k][i] <= WindowTicks})
           <= max_requests



(***************************************************************************)
(* Claims about the session store                                          *)
(***************************************************************************)
NonSystem(history) == SelectSeq(history, LAMBDA m : m.role # "system")

LastN(q, n) == SubSeq(q, Max(Len(q) - n + 1, 1), Len(q))

\* C5: a stored history never has more than maxTurns (120) turns; once more
\* than maxTurns - 3 turns have been appended to a record, its non-system
\* turns are exactly the most recent maxTurns - 3 appended turns, in the
\* order of appending.
C5_HistoryBounded ==
    \A k \in DOMAIN SESSION_HISTORIES :
       /\ Len(SESSION_HISTORIES[k]) <= 120
       /\ Len(log[k]) > 120 - 3 =>
             NonSystem(SESSION_HISTORIES[k]) = LastN(log[k], 120 - 3)

\* an append has pushed a record over maxTurns and it was trimmed
C5_Witness ==
    \E k \in DOMAIN SESSION_HISTORIES :
       /\ Len(log[k]) > 120 - 3
       /\ lastCall.op \in {"append_user", "append_assistant"}
       /\ lastCall.key = k
       /\ Len(SESSION_HISTORIES[k]) = 120

\* C6: every stored history begins with the three system-seed turns, in
\* their order, and holds no system turn after position 3.
C6_SeedTurnsFirst ==
    \A k \in DOMAIN SESSION_HISTORIES :
       LET h == SESSION_HISTORIES[k] IN
       /\ Len(h) >= 3
       /\ h[1] = [role |-> "system", content |-> 1]
       /\ h[2] = [role |-> "system", content |-> 2]
       /\ h[3] = [role |-> "system", content |-> 3]
       /\ \A i \in 4..Len(h) : h[i].role # "system"

\* a record that was trimmed and then pinned or archived
C6_Witness ==
    /\ lastCall.op \in {"pin", "archive"}
    /\ lastCall.ok
    /\ Len(log[lastCall.key]) > 120 - 3

\* the record of session k is in the store and not expired at time t
Alive(k, t) ==
    /\ k \in DOMAIN SESSION_HISTORIES
    /\ k \in DOMAIN SESSION_TOUCHED_AT
    /\ t - SESSION_TOUCHED_AT[k] <= 86400

\* expired records and their share ids aside, f is unchanged
SameButSwept(f, g, t) ==
    /\ DOMAIN g = {k \in DOMAIN f : Alive(k, t)}
    /\ \A k \in DOMAIN g : g[k] = f[k]

\* C7: appendAssistant with a key that has no record in the store (never
\* created, deleted, or expired while the upstream call was in flight) is a
\* no-op: it creates no record and leaves histories, timestamps, flags and
\* share mappings as they are (but for the sweep of expired records).
C7_AppendAssistantUnknownKeyNoOp ==
    [][(ncalls' = ncalls + 1 /\ lastCall'.op = "append_assistant"
          /\ ~Alive(lastCall'.key, storeClock))
       => /\ lastCall'.key \notin DOMAIN SESSION_HISTORIES'
          /\ SameButSwept(SESSION_HISTORIES, SESSION_HISTORIES', storeClock)
          /\ SameButSwept(SESSION_TOUCHED_AT, SESSION_TOUCHED_AT', storeClock)
          /\ SameButSwept(SESSION_CREATED_AT, SESSION_CREATED_AT', storeClock)
          /\ SameButSwept(SESSION_FLAGS, SESSION_FLAGS', storeClock)
          /\ DOMAIN SHARED_SESSION_MAP' \subseteq DOMAIN SHARED_SESSION_MAP
      ]_vars

\* C8: list_session_summaries, called at time now, returns no summary for a
\* record with now - lastTouchedAt > ttlSeconds and exactly one summary for
\* every record that is not expired.
C8_ListOmitsExpired ==
    [][(ncalls' = ncalls + 1 /\ lastCall'.op = "list")
       => LET out == lastCall'.summaries
              Of(k) == {i \in 1..Len(out) : out[i].id = k}
          IN  /\ \A k \in DOMAIN SESSION_HISTORIES :
                    IF storeClock - SESSION_TOUCHED_AT[k] > 86400
                    THEN Of(k) = {}
                    ELSE Cardinality(Of(k)) = 1
              /\ \A i \in 1..Len(out) : out[i].id \in DOMAIN SESSION_HISTORIES
      ]_vars

\* a listing that swept an expired record and returned a live one
C8_Witness ==
    /\ lastCall.op = "list"
    /\ lastCall.swept # {}
    /\ lastCall.summaries # <<>>

\* C9: every share id in the share map points at a session that has a
\* record; a share id whose session was swept or deleted is gone from the
\* map, and get_shared_conversation of it returns not-found.
C9_SharesPointAtRecords ==
    /\ \A sh \in DOMAIN SHARED_SESSION_MAP :
          SHARED_SESSION_MAP[sh] \in DOMAIN SESSION_HISTORIES
    /\ (lastCall.op = "get_shared" /\ lastCall.ok) =>
          /\ lastCall.share \in DOMAIN SHARED_SESSION_MAP
          /\ SHARED_SESSION_MAP[lastCall.share] = lastCall.key

\* a share id that was minted, whose session is gone, resolved: not-found
C9_Witness ==
    /\ lastCall.op = "get_shared"
    /\ lastCall.share \in 1..minted
    /\ lastCall.share \notin DOMAIN SHARED_SESSION_MAP
    /\ ~lastCall.ok

\* C10: create_share_link is idempotent per key: while the record of a key
\* stays in the store its share id stays mapped to it, a further call
\* returns that id and adds no entry to the share map; for an unknown key
\* the call returns not-found and adds no entry.
C10_ShareLinkIdempotent ==
    [][/\ \A sh \in DOMAIN SHARED_SESSION_MAP :
            LET k == SHARED_SESSION_MAP[sh] IN
            (Alive(k, storeClock') /\ k \in DOMAIN SESSION_HISTORIES') =>
               /\ sh \in DOMAIN SHARED_SESSION_MAP'
               /\ SHARED_SESSION_MAP'[sh] = k
       /\ (ncalls' = ncalls + 1 /\ lastCall'.op = "create_share") =>
            LET k == lastCall'.key
                had == {sh \in DOMAIN SHARED_SESSION_MAP :
                           SHARED_SESSION_MAP[sh] = k}
            IN  IF ~Alive(k, storeClock)
                THEN /\ ~lastCall'.ok
                     /\ lastCall'.share = None
                     /\ DOMAIN SHARED_SESSION_MAP' \subseteq DOMAIN SHARED_SESSION_MAP
                ELSE /\ lastCall'.ok
                     /\ had # {} =>
                          /\ had = {lastCall'.share}
                          /\ DOMAIN SHARED_SESSION_MAP'
                                \subseteq DOMAIN SHARED_SESSION_MAP
      ]_vars

\* a second create_share_link of a session returned the id of the first
C10_Witness ==
    /\ lastCall.op = "create_share"
    /\ lastCall.ok
    /\ lastCall.reused


(***************************************************************************)
(* Claims about the upstream client                                        *)
(***************************************************************************)
CallNames == {"primary", "fallback"}

\* the call of _request_groq_with_retry is over
Ended(c) == calls[c].ended # "no"

\* C11: one call of _request_groq_with_retry sends at most maxRetries + 1
\* requests; every 429 received while retries remain is followed by a wait
\* and one more request; a call that returned received 429s only before the
\* success response it returned, with one wait per 429
C11_BoundedRetriesFirstSuccessReturned ==
    \A c \in CallNames :
        LET st == calls[c].statuses IN
        /\ calls[c].sent <= MAX_GROQ_RETRIES + 1
        /\ Ended(c) =>
              \A i \in 1..Len(st) :
                  (st[i] = 429 /\ i <= MAX_GROQ_RETRIES) =>
                      /\ calls[c].sent > i
                      /\ calls[c].waits >= i
        /\ calls[c].ended = "returned" =>
              /\ Len(st) = calls[c].sent
              /\ \A i \in 1..(Len(st) - 1) : st[i] = 429
              /\ IsSuccess(st[Len(st)])
              /\ calls[c].waits = Len(st) - 1
              /\ outcome.kind = "ok" /\ outcome.call = c
              /\ outcome.data = calls[c].sent


\* the header holds a number of seconds, and that number in tenths
StatesNumber(headers) ==
    /\ "Retry-After" \in DOMAIN headers
    /\ headers["Retry-After"] \in {"-1", "0.5", "2", " 2 ", "2.5", "9"}
StatedTenths(headers) ==
    LET s == headers["Retry-After"]
    IN  CASE s = "-1" -> -10
          [] s = "0.5" -> 5
          [] s \in {"2", " 2 "} -> 20
          [] s = "2.5" -> 25
          [] s = "9" -> 90

\* the wait the claim states for a 429 with these headers at this attempt
StatedWait(headers, attempt) ==
    IF StatesNumber(headers) /\ StatedTenths(headers) >= 0
    THEN Min(StatedTenths(headers), MAX_RETRY_DELAY_SECONDS)
    ELSE Min(BASE_RETRY_DELAY_SECONDS * Pow2(attempt), MAX_RETRY_DELAY_SECONDS)

WaitAsStated(headers, attempt, wait) ==
    /\ wait.tag = "num"
    /\ wait.v = StatedWait(headers, attempt)
    /\ 0 <= wait.v /\ wait.v <= MAX_RETRY_DELAY_SECONDS

\* C12: the wait before retry number attempt is the upstream's Retry-After
\* when the header is present, numeric and non-negative, capped at
\* maxRetryDelay, and min(baseDelay * 2^attempt, maxRetryDelay) otherwise;
\* every wait lies in [0, maxRetryDelay]
C12_WaitIsRetryAfterOrBackoff ==
    /\ turn.pc = "sleep" => WaitAsStated(turn.headers, turn.attempt, turn.wait)
    /\ lastWait.call # "none" =>
          WaitAsStated(lastWait.headers, lastWait.attempt, lastWait.wait)


\* C13: an error status other than 429 ends the call of
\* _request_groq_with_retry with that response: it is the last response of
\* the call, the call raised, and no wait and no request follows it
C13_OtherErrorRaisesAtOnce ==
    \A c \in CallNames :
        LET st == calls[c].statuses IN
        \A i \in 1..Len(st) :
            (st[i] # 429 /\ ~IsSuccess(st[i])) =>
                /\ i = Len(st)
                /\ calls[c].sent = i
                /\ calls[c].waits = i - 1
                /\ calls[c].ended = "status_error"
                /\ ~(turn.call = c /\ turn.pc \in {"post", "sleep"})

\* a call raised on a 500 that followed one 429: one retry was left
C13_Witness ==
    /\ calls["primary"].statuses = <<429, 500>>
    /\ calls["primary"].ended = "status_error"
    /\ calls["primary"].waits = 1
    /\ turn.pc = "done"


\* r is x rounded to an integer, x >= 0 in tenths (a half may go either way)
IsRounded(r, x) ==
    /\ 2 * (r * UnitsPerSecond - x) <= UnitsPerSecond
    /\ 2 * (x - r * UnitsPerSecond) <= UnitsPerSecond

\* the call ended on the 429 that answered its last allowed request
RetriesExhausted(c) ==
    /\ calls[c].ended = "status_error"
    /\ calls[c].statuses = [i \in 1..(MAX_GROQ_RETRIES + 1) |-> 429]

\* C14: when the retries are exhausted chat_with_groq fails with a 429 whose
\* Retry-After hint is an integer >= 1: the rounded Retry-After of the final
\* 429, capped at maxRetryDelay, when that header is present and valid, and
\* 6 when it is absent, non-numeric or negative
C14_ExhaustedRetriesGiveHint ==
    \A c \in CallNames :
        (RetriesExhausted(c) /\ turn.pc = "done") =>
            /\ outcome.kind = "http"
            /\ outcome.status = 429
            /\ outcome.retry_after >= 1
            /\ IF StatesNumber(outcome.headers) /\ StatedTenths(outcome.headers) >= 0
               THEN /\ outcome.retry_after * UnitsPerSecond <= MAX_RETRY_DELAY_SECONDS
                    /\ \E r \in 0..(MAX_RETRY_DELAY_SECONDS \div UnitsPerSecond) :
                          /\ IsRounded(r, Min(StatedTenths(outcome.headers),
                                              MAX_RETRY_DELAY_SECONDS))
                          /\ outcome.retry_after = Max(1, r)
               ELSE outcome.retry_after = 6


ContentRejections == {400, 404, 422}

\* the last response of the call, 0 when it received none
LastStatus(c) ==
    IF calls[c].statuses = <<>> THEN 0
    ELSE calls[c].statuses[Len(calls[c].statuses)]

\* C15: a turn with image blocks whose primary request is rejected with 400,
\* 404 or 422 resends once, with the text-only model and the history
\* snapshot as sent messages (no content blocks, hence no image_url, and as
\* last message the stored user turn, which holds the attachment text); a
\* content rejection of that second request ends the turn with an error
C15_FallbackOnceTextOnly ==
    /\ turn.fallbacks <= 1
    /\ ( /\ image_urls(turn.attachments) > 0
         /\ calls["primary"].ended = "status_error"
         /\ LastStatus("primary") \in ContentRejections )
       => /\ turn.fallbacks = 1
          /\ calls["fallback"].payload.model = GROQ_MODEL
          /\ LET sent == calls["fallback"].payload.messages
             IN  /\ Len(sent) = Len(turn.history)
                 /\ \A i \in 1..Len(sent) :
                       /\ sent[i].blocks = <<>>
                       /\ sent[i].role = turn.history[i].role
                       /\ sent[i].content = turn.history[i].content
                 /\ sent[Len(sent)].role = "user"
                 /\ turn.stored.extra
    /\ ( /\ calls["fallback"].ended = "status_error"
         /\ LastStatus("fallback") \in ContentRejections )
       => /\ turn.pc = "done"
          /\ outcome.kind = "http"
          /\ outcome.status = 502

\* the primary request carried three image blocks and was rejected with 422,
\* the text-only request was rejected with 400
C15_Witness ==
    /\ image_urls(turn.attachments) = MAX_IMAGE_ATTACHMENTS_PER_TURN
    /\ LastStatus("primary") = 422
    /\ calls["primary"].payload.model = GROQ_VISION_MODEL
    /\ "image_url" \in
          {calls["primary"].payload.messages[Len(turn.history)].blocks[i] :
              i \in 1..Len(calls["primary"].payload.messages[Len(turn.history)].blocks)}
    /\ calls["fallback"].ended = "status_error"
    /\ LastStatus("fallback") = 400
    /\ outcome.status = 502


\* C16: the fallback request is made exactly when the turn has image blocks
\* and the primary call ended on a 400, 404 or 422 (never after a final 429,
\* a network error, or without images); the fallback call counts its own
\* attempts from 0, so it gives up on a 429 only after maxRetries retries of
\* its own
C16_FallbackOnlyOnContentRejection ==
    /\ (turn.fallbacks > 0) <=>
          ( /\ image_urls(turn.attachments) > 0
            /\ calls["primary"].ended = "status_error"
            /\ LastStatus("primary") \in ContentRejections )
    /\ (turn.fallbacks > 0) <=> (calls["fallback"].payload # NoPayload)
    /\ (turn.fallbacks = 0) => (calls["fallback"].sent = 0 /\ turn.call # "fallback")
    /\ (calls["primary"].ended = "request_error" \/ LastStatus("primary") = 429)
          => turn.fallbacks = 0
    /\ (turn.call = "fallback" /\ turn.pc \in {"post", "sleep"}) =>
          /\ turn.attempt = calls["fallback"].waits
          /\ calls["fallback"].sent =
                turn.attempt + (IF turn.pc = "sleep" THEN 1 ELSE 0)
    /\ (calls["fallback"].ended = "status_error" /\ LastStatus("fallback") = 429)
          => RetriesExhausted("fallback")

\* the primary call used both retries before the 404, and the fallback call
\* was retried twice as well before it gave up on a third 429
C16_Witness ==
    /\ calls["primary"].statuses = <<429, 429, 404>>
    /\ turn.fallbacks = 1
    /\ RetriesExhausted("fallback")
    /\ calls["fallback"].waits = MAX_GROQ_RETRIES
    /\ outcome.status = 429

(***************************************************************************)
(* Claims about generate_medical_response                                  *)
(***************************************************************************)

\* C17: whenever detect_emergency fires on the inbound message, the
\* structured result generate_medical_response returns has urgency_level
\* "emergency", whatever urgency the upstream chose and also when the
\* upstream call failed and the local fallback result was built; no step
\* after the overlay changes urgency_level.
C17_EmergencyForcesUrgency ==
    gen.pc = "returned" /\ detect_emergency(gen.message) =>
        /\ gen.overlaid.urgency_level = "emergency"
        /\ gen.structured.urgency_level = gen.overlaid.urgency_level

\* an emergency message whose upstream result said "low"
C17_Witness ==
    /\ gen.pc = "returned"
    /\ detect_emergency(gen.message)
    /\ ~gen.raised
    /\ gen.received.urgency_level = "low"
    /\ gen.structured.urgency_level = "emergency"

\* number of occurrences of the banner in a text
Count(text, alert) == Cardinality({i \in 1..Len(text) : text[i] = alert})

\* C18 (as stated): the overlay is idempotent, after one or two applications
\* the banner occurs exactly once in the final response, and an empty final
\* response becomes exactly the banner.
C18_BannerExactlyOnce ==
    gen.pc = "returned" /\ gen.emergency =>
        LET alert == emergency_alert(gen.language, gen.language_variant)
            once == gen.overlaid
            twice == emergency_overlay(once, gen.language, gen.language_variant)
        IN  /\ twice = once
            /\ Count(once.final_response, alert) = 1
            /\ Count(twice.final_response, alert) = 1
            /\ StripText(gen.before.final_response) = <<>>
                  => once.final_response = <<alert>>

\* C18 (amended): the overlay is idempotent: a final response that already
\* holds the banner is left as it is, with as many banners as it came with,
\* and a second application changes nothing; a final response without the
\* banner gets it once; an empty final response becomes exactly the banner.
C18_OverlayIdempotent ==
    gen.pc = "returned" /\ gen.emergency =>
        LET alert == emergency_alert(gen.language, gen.language_variant)
            once == gen.overlaid
            twice == emergency_overlay(once, gen.language, gen.language_variant)
            held == Count(gen.before.final_response, alert)
        IN  /\ twice = once
            /\ held >= 1 => once.final_response = gen.before.final_response
            /\ Count(once.final_response, alert) = Max(1, held)
            /\ Count(twice.final_response, alert) = Max(1, held)
            /\ StripText(gen.before.final_response) = <<>>
                  => once.final_response = <<alert>>

\* an emergency reply that came with the banner of its language in it
C18_Witness ==
    /\ gen.pc = "returned"
    /\ gen.emergency
    /\ ~gen.raised
    /\ Count(gen.received.final_response,
             emergency_alert(gen.language, gen.language_variant)) = 1
    /\ gen.overlaid.final_response = gen.received.final_response

(***************************************************************************)
(* Claims about POST /chat                                                 *)
(***************************************************************************)

\* the rows POST /chat stored for its n-th request
RowsOf(n, role) ==
    {i \in 1..Len(db.messages) :
        db.messages[i].request = n /\ db.messages[i].role = role}

\* C19: when the upstream call of a chat turn fails, the turn ends in an
\* error response without being normalized or persisted: the user turn
\* stored for it stays and no assistant turn is stored for that turn.
C19_UpstreamFailureEndsInError ==
    req.pc = "idle" /\ req.upstream_failed =>
        /\ resp.n = req.n
        /\ resp.status \in {429, 502, 503}
        /\ ~resp.fallback
        /\ req.user # Guest => RowsOf(req.n, "user") # {}
        /\ RowsOf(req.n, "assistant") = {}

\* C20 (as stated): for every request POST /chat handles, authenticated or
\* guest, no user turn is stored and no upstream request is issued unless
\* the limiter admitted that request, and a denied request is answered with
\* a 429 carrying the limiter's Retry-After seconds.
C20_EveryRequestChecked ==
    req.n > 0 =>
        /\ req.generated \/ RowsOf(req.n, "user") # {}
              => req.checked /\ req.allowed
        /\ req.checked /\ ~req.allowed
              => /\ resp.n = req.n
                 /\ resp.status = 429
                 /\ resp.retry_after = lastCheck.retry

\* C20 (amended): for every request POST /chat handles for an authenticated
\* user, the limiter is consulted with the user's key, no user turn is
\* stored and no upstream request is issued unless the limiter admitted
\* that request, and a denied request is answered with a 429 carrying the
\* limiter's Retry-After seconds; the requests of guests are not passed to
\* the limiter.
C20_AuthenticatedRequestChecked ==
    req.n > 0 =>
        /\ req.checked <=> req.user # Guest
        /\ req.user # Guest =>
              /\ lastCheck.key = req.user
              /\ lastCheck.allowed = req.allowed
              /\ req.generated \/ RowsOf(req.n, "user") # {} => req.allowed
              /\ ~req.allowed
                    => /\ resp.n = req.n
                       /\ resp.status = 429
                       /\ resp.retry_after = lastCheck.retry
                       /\ resp.retry_after >= 1

\* an authenticated request the limiter denied, after max_requests admitted
C20_Witness ==
    /\ req.n > 0
    /\ req.user # Guest
    /\ req.checked
    /\ ~req.allowed
    /\ ~req.generated
    /\ resp.n = req.n
    /\ resp.status = 429
    /\ Cardinality({i \in 1..Len(db.messages) :
                       db.messages[i].role = "user"}) >= 1

(***************************************************************************)
(* Further claims about the session store                                  *)
(***************************************************************************)

C29_ReadsRefreshTouchedAt ==
    [][(ncalls' = ncalls + 1) =>
          /\ (lastCall'.op \in {"get", "get_shared"} /\ lastCall'.ok) =>
                SESSION_TOUCHED_AT'[lastCall'.key] = storeClock
          /\ lastCall'.op = "list" =>
                \A i \in 1..Len(lastCall'.summaries) :
                   SESSION_TOUCHED_AT'[lastCall'.summaries[i].id] = storeClock
      ]_vars


\* C26: a failure of fetch_pubmed_references counts as an empty reference
\* list: generate_medical_response goes on to the upstream call with no
\* reference hints and returns the result it returns for a search that found
\* nothing, with an urgency level and a response text; it never ends in the
\* search's exception.
C26_PubmedFailureIsEmptyList ==
    gen.pubmed_raised =>
        /\ gen.pc \in {"upstream", "returned"}
        /\ gen.reference_links = <<>>
        /\ gen.pc = "upstream" => ENABLED ask_groq_structured
        /\ gen.pc = "returned" =>
              /\ gen.structured.urgency_level \in UrgencyLevels
              /\ gen.response_text # <<>>
              /\ gen.structured.references = gen.overlaid.references

\* the search raised and the turn returned an upstream result
C26_Witness ==
    /\ gen.pubmed_raised
    /\ gen.pc = "returned"
    /\ ~gen.raised
    /\ gen.structured.final_response # <<>>


(***************************************************************************)
(* Further claims about chat_with_groq                                     *)
(***************************************************************************)

\* C27: a request that fails on the network level ends its call and the
\* turn at once with HTTPException 503, with no further request and no
\* fallback; a call that ends on an error status other than 429 ends the
\* turn with HTTPException 502, unless it is the primary call whose content
\* rejection starts the fallback request; a 503 is only ever raised after a
\* network failure and a 502 only after such an error status, for the
\* primary and the fallback call alike.
C27_UnreachableIs503RejectedIs502 ==
    /\ \A c \in CallNames :
          /\ calls[c].ended = "request_error" =>
                /\ turn.pc = "done"
                /\ outcome.kind = "http" /\ outcome.status = 503
                /\ outcome.call = c
                /\ calls[c].sent = Len(calls[c].statuses) + 1
                /\ \A i \in 1..Len(calls[c].statuses) : calls[c].statuses[i] = 429
                /\ c = "primary" => calls["fallback"].sent = 0
          /\ ( /\ calls[c].ended = "status_error"
               /\ LastStatus(c) # 429
               /\ ~(c = "primary" /\ turn.fallbacks = 1) ) =>
                /\ turn.pc = "done"
                /\ outcome.kind = "http" /\ outcome.status = 502
                /\ outcome.call = c
    /\ (outcome.kind = "http" /\ outcome.status = 503) =>
          calls[outcome.call].ended = "request_error"
    /\ (outcome.kind = "http" /\ outcome.status = 502) =>
          /\ calls[outcome.call].ended = "status_error"
          /\ LastStatus(outcome.call) # 429
          /\ ~IsSuccess(LastStatus(outcome.call))

\* a turn with images: the primary request rejected with 422, the fallback
\* request answered 429 once and then failed on the network
C27_Witness ==
    /\ calls["primary"].ended = "status_error"
    /\ LastStatus("primary") = 422
    /\ calls["fallback"].statuses = <<429>>
    /\ calls["fallback"].ended = "request_error"
    /\ outcome.status = 503


(***************************************************************************)
(* Claims about POST /chat of the first application                        *)
(***************************************************************************)

\* C28: the error response after an upstream failure does not depend on the
\* body of the upstream's error response: had the upstream answered with the
\* same status and any other body, the user would have received the same
\* status and the same detail text.
C28_ErrorIndependentOfBody ==
    ( /\ legacy.pc = "done"
      /\ legacy.upstream.kind = "response"
      /\ ~IsSuccess(legacy.upstream.status) ) =>
        \A body \in Bodies :
            legacy_status_error([legacy.upstream EXCEPT !.body = body])
                = legacy.resp


(***************************************************************************)
(* Claims about the normalisation of the upstream's reply                  *)
(***************************************************************************)

\* the raw text parses as a JSON object directly, after its code fences are
\* stripped, or between its first "{" and its last "}"
ParsesSomehow(raw) ==
    \/ parse_object(raw).ok
    \/ parse_object(strip_code_fences(raw)).ok
    \/ parse_object(extract_braces(raw)).ok

\* C22: normalize returns a result for every raw text; for a raw text that
\* does not parse as a JSON object (directly, after stripping the code
\* fences, or between the first "{" and the last "}") the advice of the
\* result contains the raw text, its urgency level is "moderate", and its
\* symptoms, possible causes and when-to-see-a-doctor are the fixed defaults.
C22_UnparseableTextBecomesAdvice ==
    norm.pc = "returned" =>
        /\ norm.result.urgency_level \in UrgencyLevels
        /\ ~ParsesSomehow(norm.rawText) =>
              /\ Contains(norm.result.advice, RawText(norm.rawText))
              /\ norm.result.urgency_level = "moderate"
              /\ norm.result.symptoms = SYMPTOMS_DEFAULT
              /\ norm.result.possible_causes = CAUSES_DEFAULT
              /\ norm.result.when_to_see_doctor = WHEN_DEFAULT

\* a partial JSON object: an opening brace and two members, no closing brace
C22_Witness ==
    /\ norm.pc = "returned"
    /\ norm.rawText = <<Fence, LBrace, "symptoms: cough", "urgency_level: high">>
    /\ norm.result.advice = RawText(norm.rawText)
    /\ norm.result.symptoms = SYMPTOMS_DEFAULT


(***************************************************************************)
(* Claims about _HISTORY_LOCK                                              *)
(***************************************************************************)

C21_MalformedReplyNeverFatal ==
    /\ gen.pc = "upstream" => ENABLED ask_groq_structured
    /\ (gen.pc = "returned" /\ gen.upstream \in {"result", "text"}) =>
          /\ gen.structured.urgency_level \in UrgencyLevels
          /\ gen.response_text # <<>>
          /\ gen.upstream = "text" /\ ~gen.raised =>
                gen.received = normalize(gen.rawText, gen.reference_links)

\* ask_groq_structured raised on the reply "free text": the result is the
\* local fallback
C21_Witness ==
    /\ gen.pc = "returned"
    /\ gen.upstream = "text"
    /\ gen.rawText = <<"free text">>
    /\ gen.raised
    /\ gen.structured.urgency_level = "moderate"


(***************************************************************************)
(* Claims about concurrent POST /chat requests                             *)
(***************************************************************************)

\* C23: the rows of one session are in the order in which the limiter
\* admitted their requests: of two rows of the same role, the one of the
\* request admitted first comes first, however the awaits interleave.
C23_TurnsInAdmissionOrder ==
    \A i, j \in 1..Len(db.messages) :
        ( /\ i < j
          /\ db.messages[i].session = db.messages[j].session
          /\ db.messages[i].role = db.messages[j].role ) =>
            db.messages[i].request < db.messages[j].request


(***************************************************************************)
(* Further claims about InMemorySlidingWindowLimiter                       *)
(***************************************************************************)

\* C31: under every interleaving of concurrent check calls each key's queue
\* of timestamps is non-decreasing from head to tail, so that its head is
\* its oldest timestamp.
C31_QueueNonDecreasing ==
    \A k \in LimiterKeys :
        \A i, j \in 1..Len(events[k]) :
            i < j => events[k][i] <= events[k][j]


\* C37: a queue changes only by an admitted check of its own key, which
\* drops the expired timestamps and appends its own: a denied check leaves
\* every queue as it was, so it does not move the head that decides when the
\* key is admitted next, and a check of one key leaves the queue of every
\* other key, and with it the outcome of their next check, as it was.
C37_DeniedAndOtherKeysUntouched ==
    [][\A k \in LimiterKeys :
          /\ events'[k] # events[k] =>
                /\ lastCheck'.key = k
                /\ lastCheck'.allowed
                /\ events'[k] = Append(Prune(events[k], lastCheck'.now),
                                       lastCheck'.now)
          /\ \A now \in {clock, clock'} :
                (lastCheck' # lastCheck /\ lastCheck'.key # k) =>
                    CheckLocked(events'[k], now) = CheckLocked(events[k], now)
      ]_vars

\* u1 was just denied with a full queue while u2 holds an admission
C37_Witness ==
    /\ lastCheck.key = "u1"
    /\ ~lastCheck.allowed
    /\ Len(events["u1"]) = max_requests
    /\ events["u2"] # <<>>
    /\ Len(admitted["u1"]) = max_requests


(* Further claims about the session store *)
\* C34: in every reachable state of the store the four per-session maps
\* (histories, touched-at, created-at and flags) have the same set of
\* session ids as keys, whatever sequence of store operations led there.
C34_FourMapsSameKeys ==
    /\ DOMAIN SESSION_TOUCHED_AT = DOMAIN SESSION_HISTORIES
    /\ DOMAIN SESSION_CREATED_AT = DOMAIN SESSION_HISTORIES
    /\ DOMAIN SESSION_FLAGS = DOMAIN SESSION_HISTORIES

\* a late assistant reply has re-created a session that was gone, after a
\* deletion or a sweep
C34_Witness ==
    /\ lastCall.op = "append_assistant"
    /\ ~lastCall.ok
    /\ lastCall.key \in DOMAIN SESSION_FLAGS
    /\ DOMAIN SESSION_HISTORIES = SessionIds


\* session k is in the store and its ttl has run out at the time of the clock
ExpiredRecord(k) ==
    /\ k \in DOMAIN SESSION_HISTORIES
    /\ k \in DOMAIN SESSION_TOUCHED_AT
    /\ IsExpired(storeClock, SESSION_TOUCHED_AT[k])

\* the record of k is what the step found
SameRecord(k) ==
    /\ k \in DOMAIN SESSION_HISTORIES'
    /\ SESSION_HISTORIES'[k] = SESSION_HISTORIES[k]
    /\ SESSION_TOUCHED_AT'[k] = SESSION_TOUCHED_AT[k]
    /\ k \in DOMAIN SESSION_CREATED_AT' /\ k \in DOMAIN SESSION_CREATED_AT
    /\ SESSION_CREATED_AT'[k] = SESSION_CREATED_AT[k]
    /\ k \in DOMAIN SESSION_FLAGS' /\ k \in DOMAIN SESSION_FLAGS
    /\ SESSION_FLAGS'[k] = SESSION_FLAGS[k]

\* C38: a store operation that finds a record whose ttl has run out
\* (now - touched-at > ttl) neither returns nor modifies it: reading,
\* pinning, archiving, sharing it or reading it through a share link
\* answers "not found", no summary lists it, and appending a user turn to
\* its key starts a fresh history (the system seed and the new user turn)
\* created at the time of the call.
C38_ExpiredRecordIsGone ==
    [][\A k \in SessionIds :
          (ncalls' = ncalls + 1 /\ ExpiredRecord(k)) =>
             LET r == lastCall' IN
             /\ (r.key = k /\ r.op \in {"get", "pin", "archive", "create_share"}) =>
                   /\ ~r.ok /\ r.messages = <<>> /\ r.share = None
                   /\ k \notin DOMAIN SESSION_HISTORIES'
             /\ (/\ r.op = "get_shared"
                 /\ r.share \in DOMAIN SHARED_SESSION_MAP
                 /\ SHARED_SESSION_MAP[r.share] = k) =>
                   ~r.ok /\ r.messages = <<>>
             /\ r.op = "list" =>
                   \A i \in 1..Len(r.summaries) : r.summaries[i].id # k
             /\ (r.op = "append_user" /\ r.key = k) =>
                   /\ SESSION_HISTORIES'[k] =
                         Append(seed_history, [role |-> "user", content |-> 1])
                   /\ SESSION_CREATED_AT'[k] = storeClock
                   /\ SESSION_FLAGS'[k] = default_flags
             /\ \/ k \notin DOMAIN SESSION_HISTORIES'
                \/ /\ r.key = k /\ r.op \in {"append_user", "append_assistant"}
                   /\ Len(SESSION_HISTORIES'[k]) = Len(seed_history) + 1
                   /\ SESSION_CREATED_AT'[k] = storeClock
                \/ r.key = NoSessionId /\ r.share = None /\ ~r.ok /\ SameRecord(k)
      ]_vars

\* the long conversation was shared, more than its ttl went by, and the
\* share link is then read: nothing is found
C38_Witness ==
    /\ lastCall.op = "get_shared"
    /\ lastCall.share = 1
    /\ ~lastCall.ok
    /\ minted = 1
    /\ ncalls = 2
    /\ IsExpired(storeClock, 1)
    /\ SESSION_HISTORIES = <<>>


(* Further claims about chat_with_groq *)
\* the requests one turn has sent upstream so far, both calls together
RequestsSent == calls["primary"].sent + calls["fallback"].sent

\* C36: one turn of chat_with_groq sends at most 2 * (maxRetries + 1) = 6
\* requests upstream, at most maxRetries + 1 = 3 when the turn has no image,
\* and the RuntimeError after the retry loop is never raised.
C36_RequestsBounded ==
    /\ RequestsSent <= 2 * (MAX_GROQ_RETRIES + 1)
    /\ image_urls(turn.attachments) = 0 => RequestsSent <= MAX_GROQ_RETRIES + 1
    /\ \A c \in {"primary", "fallback"} :
          /\ calls[c].sent <= MAX_GROQ_RETRIES + 1
          /\ calls[c].ended # "runtime_error"

\* a turn with an image that used all six requests: the primary call was
\* rate limited twice and then rejected, the fallback rate limited thrice
C36_Witness ==
    /\ turn.pc = "done"
    /\ RequestsSent = 2 * (MAX_GROQ_RETRIES + 1)
    /\ calls["fallback"].statuses = <<429, 429, 429>>
    /\ outcome.kind = "http" /\ outcome.status = 429


\* the assistant turns among the turns appended to the record of k
AssistantTurns(k) == Len(SelectSeq(log[k], LAMBDA m : m.role = "assistant"))

\* C32: a turn of chat_with_groq whose upstream requests all return or time
\* out ends, with a response or an error; its user turn is appended before
\* its first upstream request is sent; and an assistant turn is appended at
\* most once in a turn, in the step in which an upstream request is answered
\* with a success status and before the response is returned.
C32_TurnTerminatesAppendsInOrder ==
    /\ [][/\ RequestsSent' > RequestsSent =>
                /\ turn.pc = "post"
                /\ lastCall.op = "append_user"
                /\ lastCall.key = turn.key
                /\ Len(log[turn.key]) > 0
                /\ log[turn.key][Len(log[turn.key])].role = "user"
          /\ (nturns' = nturns + 1 /\ turn'.pc = "post") =>
                /\ RequestsSent' = 0
                /\ lastCall'.op = "append_user"
                /\ lastCall'.key = turn'.key
          /\ \A k \in SessionIds :
                AssistantTurns(k)' # AssistantTurns(k) =>
                   /\ AssistantTurns(k)' = AssistantTurns(k) + 1
                   /\ k = turn.key
                   /\ turn.pc = "post" /\ turn'.pc = "done"
                   /\ outcome.kind = "none" /\ outcome'.kind = "ok"
                   /\ \A c \in {"primary", "fallback"} : calls[c].ended # "returned"
                   /\ LET seen == calls'[turn.call].statuses
                      IN  /\ Len(seen) = Len(calls[turn.call].statuses) + 1
                          /\ seen[Len(seen)] >= 200 /\ seen[Len(seen)] < 300
       ]_vars
    /\ (turn.pc \in {"post", "sleep"}) ~>
          (turn.pc = "done" /\ outcome.kind \in {"ok", "http", "error"})

\* a turn that was rate limited, waited, was answered with a success and
\* returned its response with the assistant turn stored
C32_Witness ==
    /\ turn.pc = "done"
    /\ outcome.kind = "ok"
    /\ calls["primary"].statuses = <<429, 200>>
    /\ AssistantTurns(turn.key) = 1
    /\ Len(log[turn.key]) = 2


\* C35: the history _append_user_message returns ends with the user turn
\* that same call appended, also while other turns on the same session are
\* in flight and have appended theirs; so the content blocks that
\* _build_request_messages puts in place of the last message replace the
\* request's own user turn and nothing else.
C35_SnapshotEndsWithOwnTurn ==
    lastCall.op = "append_user" =>
        LET h == lastCall.history
            k == lastCall.key
            own == [role |-> "user", content |-> Len(log[k])]
        IN  /\ Len(h) > 0
            /\ h[Len(h)] = own
            /\ log[k][Len(log[k])] = own
            /\ \A has_text \in BOOLEAN, attachments \in AttachmentLists :
                  image_urls(attachments) > 0 =>
                     LET messages == build_request_messages(h, has_text, attachments)
                     IN  /\ Len(messages) = Len(h)
                         /\ messages[Len(h)].role = "user"
                         /\ messages[Len(h)].blocks # <<>>
                         /\ \A i \in 1..(Len(h) - 1) :
                               messages[i] = TextMessage(h[i])

\* a second turn on the long session appended its user message while the
\* first one was still waiting for the upstream, and the history was trimmed
C35_Witness ==
    /\ lastCall.op = "append_user"
    /\ pending[lastCall.key] = 2
    /\ Len(lastCall.history) = MAX_MESSAGES_PER_SESSION
    /\ Len(log[lastCall.key]) = PrefillTurns + 2


\* a stored turn with a plain text as content: a role and a text, no blocks
PlainTurn(m) == DOMAIN m = {"role", "content"} /\ m.content # None

=============================================================================
